---- MODULE Spec2Model ----
(***************************************************************************)
(* Secret Santa wheel: the assignment ledger (State), the two stores       *)
(* (GitHubStore over the remote state.json, LocalStore over localStorage)  *)
(* and the commit protocol of Controller.handleSpin / commitAssignment,    *)
(* for several browser clients sharing one remote state.json.              *)
(***************************************************************************)
EXTENDS Integers, Sequences, FiniteSets, TLC

\* ------------------------------------------------------------------------
\* Bounds and program constants
\* ------------------------------------------------------------------------
MaxSpins == 3
maxCommitRetries == 3

Clients == {"c1", "c2"}
Names == {"A", "B"}
DefaultParticipants == <<"A", "B">>
Anonymous == "anonymous"
NoIdentity == ""
Keys == Names \cup {Anonymous}
Identities == Names \cup {NoIdentity}

\* ------------------------------------------------------------------------
\* Assignment mappings (JS objects spinner -> recipient)
\* ------------------------------------------------------------------------
EmptyMap == [k \in {} |-> "A"]

AllMaps == UNION {[D -> Names] : D \in SUBSET Keys}

Put(m, k, v) == [x \in (DOMAIN m) \cup {k} |-> IF x = k THEN v ELSE m[x]]

Values(m) == {m[k] : k \in DOMAIN m}

\* Variant: the set is filled from Object.keys instead of Object.values.
updateAssignedFromKeys(m) == DOMAIN m

\* Variant: the assigned-recipient set is cleared and not refilled.
updateAssignedNone(m) == {}

\* State.updateAssignedRecipients: clear the set, add every value.
updateAssignedRecipients(m) == Values(m)

\* Variant: the declared identity is not filtered out.
getEligibleIgnoringIdentity(p, s, spinnerIdentity) ==
    LET NotAssigned(x) == x \notin s
    IN SelectSeq(p, NotAssigned)

\* State.getEligibleRecipients over participant sequence p and assigned set s.
getEligibleRecipients(p, s, spinnerIdentity) ==
    LET NotAssigned(x) == x \notin s
        NotSelf(x) == x # spinnerIdentity
        eligible == SelectSeq(p, NotAssigned)
    IN IF spinnerIdentity # NoIdentity
       THEN SelectSeq(eligible, NotSelf)
       ELSE eligible

Includes(seq, x) == \E i \in 1..Len(seq) : seq[i] = x

\* Variant: the loop stops after the first key it adopts.
RECURSIVE MergeKeysFirstOnly(_, _, _)
MergeKeysFirstOnly(local, remoteAssignments, keys) ==
    IF keys = {} THEN local
    ELSE LET key == CHOOSE x \in keys : TRUE
         IN IF key \notin DOMAIN local
            THEN Put(local, key, remoteAssignments[key])
            ELSE MergeKeysFirstOnly(local, remoteAssignments, keys \ {key})

\* State.mergeAssignments: forEach key of the remote mapping, adopt it when
\* the local mapping has no (truthy) value under that key.
\* Variant: mergeAssignments adds nothing to the local mapping.
mergeKeepsLocalOnly(local, remoteAssignments) == local

RECURSIVE MergeKeys(_, _, _)
MergeKeys(local, remoteAssignments, keys) ==
    IF keys = {} THEN local
    ELSE LET key == CHOOSE x \in keys : TRUE
             next == IF key \notin DOMAIN local
                     THEN Put(local, key, remoteAssignments[key])
                     ELSE local
         IN MergeKeys(next, remoteAssignments, keys \ {key})

\* Variant: the remote value wins for every key of the remote mapping.
mergeRemoteWins(local, remoteAssignments) ==
    [k \in (DOMAIN local) \cup (DOMAIN remoteAssignments) |->
        IF k \in DOMAIN remoteAssignments THEN remoteAssignments[k] ELSE local[k]]

mergeAssignments(local, remoteAssignments) ==
    MergeKeys(local, remoteAssignments, DOMAIN remoteAssignments)

\* State.addAssignment: this.assignments[spinner] = recipient.
\* Variant: the entry is recorded under the key 'anonymous'.
addAssignmentAnonymous(m, spinner, recipient) == Put(m, Anonymous, recipient)

addAssignment(m, spinner, recipient) == Put(m, spinner, recipient)

\* ------------------------------------------------------------------------
\* Stores
\* ------------------------------------------------------------------------
NullSha == 0
LocalSha == 0 - 1
FailStatuses == {401, 403, 503}

\* Controller.updateUI: the disabled attribute it gives the spin button, for
\* participant sequence p and assigned set s.
updateUI(p, s) == getEligibleRecipients(p, s, NoIdentity) = <<>>

NoFile == [present |-> FALSE, assignments |-> EmptyMap]
File(m) == [present |-> TRUE, assignments |-> m]

VARIABLES
    remote,              \* state.json in the repository: present, assignments, sha
    localStorage,        \* per client: secret_santa_state.json in localStorage
    participants,        \* per client: State.participants
    assignments,         \* per client: State.assignments
    assignedRecipients,  \* per client: State.assignedRecipients
    store,               \* per client: Controller.store ("github" or "local")
    isLoading,           \* per client: Controller.isLoading
    isSpinning,          \* per client: Wheel.isSpinning
    pc,                  \* per client: position of the spin in progress
    call,                \* per client: arguments and locals of commitAssignment
    toast,               \* per client: last toast of the current spin
    shown,               \* per client: recipient shown by showResult ("" if none)
    spinDisabled,        \* per client: disabled attribute of #spin-button
    outcome,             \* per client: how the last spin request ended
    h,                   \* per client: store calls of the current spin request
    spins,               \* number of spin requests accepted so far
    mlog,                \* results of the applications in the function harnesses
    gh_token,            \* per client: a 'gh_token' item is in localStorage
    config,              \* per client: SECRET_SANTA_CONFIG (proxyUrl set or not)
    remoteParticipants,  \* participants.json in the repository
    localParticipants,   \* per client: secret_santa_participants.json
    adminSteps,          \* number of settings and admin operations so far
    participantsSha,     \* sha of participants.json in the repository
    edit,                \* per client: the saveParticipants call in progress
    wiped                \* the remote ledger that the last reset replaced

vars == <<remote, localStorage, participants, assignments, assignedRecipients,
          store, isLoading, isSpinning, pc, call, toast, shown,
          spinDisabled, outcome, h, spins, mlog, gh_token, config,
          remoteParticipants, localParticipants, adminSteps,
          participantsSha, edit, wiped>>

\* What the spin handlers leave alone.
adminVars == <<gh_token, config, remoteParticipants, localParticipants, adminSteps,
               participantsSha, edit, wiped>>

\* What the settings, the reloads and the spins leave alone.
panelVars == <<edit, wiped>>

NoParticipantsFile == [present |-> FALSE, participants |-> <<>>]
ParticipantsFile(p) == [present |-> TRUE, participants |-> p]

\* No saveParticipants call in progress: the list to store (newP), the sha
\* read (sha) from the store of that moment (store), the writes sent and those answered 409, and whether the
\* list was stored.
NoEdit == [pc |-> "idle", newP |-> <<>>, store |-> "github", sha |-> NullSha,
           writes |-> 0, conflicts |-> 0, stored |-> FALSE]

\* The settings and the stored participants of clients that hold a token and
\* use no proxy, with participants.json in the repository.
TokenSetup ==
    /\ gh_token = [c \in Clients |-> TRUE]
    /\ config = [c \in Clients |-> [proxyUrl |-> FALSE]]
    /\ remoteParticipants = ParticipantsFile(DefaultParticipants)
    /\ localParticipants = [c \in Clients |-> NoParticipantsFile]
    /\ adminSteps = 0
    /\ participantsSha = 1
    /\ edit = [c \in Clients |-> NoEdit]
    /\ wiped = EmptyMap

\* Store calls of one spin request: remote reads answered with a version
\* (gets), remote writes answered (puts), writes answered 409 (conflicts),
\* the versions returned by the second and by the latest read (get2, lastGet),
\* the versions carried by the first and by the latest write (put1, lastPut),
\* the number of reads answered before the first write (gets1), the status
\* of the first failed remote call (fail, 0: none), the number of remote
\* calls answered after it (after) and whether the write of line 806 threw
\* in LocalStore (threw).
NoCalls == [gets |-> 0, puts |-> 0, conflicts |-> 0, get2 |-> NullSha,
            lastGet |-> NullSha, put1 |-> NullSha, lastPut |-> NullSha,
            gets1 |-> 0, fail |-> 0, after |-> 0, threw |-> FALSE]

NoCall == [spinnerName |-> Anonymous, recipient |-> "A", isAdjustment |-> FALSE,
           retryCount |-> 0, sha |-> NullSha, stateJson |-> EmptyMap,
           prev |-> EmptyMap]

\* GitHubStore.getFile answered by the repository: 404 gives content null, sha null.
GitHubGet == [present |-> remote.present, assignments |-> remote.assignments,
              sha |-> remote.sha]

\* Variant: LocalStore.getFile reports no version for a stored resource.
LocalGetNoVersion(c) ==
    [present |-> localStorage[c].present,
     assignments |-> localStorage[c].assignments, sha |-> NullSha]

\* LocalStore.getFile: content and sha 'local', or content null and sha null.
LocalGet(c) == IF localStorage[c].present
               THEN [present |-> TRUE, assignments |-> localStorage[c].assignments,
                     sha |-> LocalSha]
               ELSE [present |-> FALSE, assignments |-> EmptyMap, sha |-> NullSha]

\* Variant: a retry sends the repository's latest sha instead of the one read.
PutShaLatestOnRetry(c) == IF call[c].retryCount > 0 THEN remote.sha ELSE call[c].sha

\* Variant: after an adjustment spin the write sends the repository's latest
\* sha instead of the one read.
PutShaLatestOnAdjustment(c) == IF call[c].isAdjustment THEN remote.sha ELSE call[c].sha

\* Variant: a retry sends again the sha that the first write of the spin carried.
PutShaFirstWrite(c) == IF h[c].puts > 0 THEN h[c].put1 ELSE call[c].sha

\* The sha a write of commitAssignment carries: stateData.sha of the same iteration.
PutSha(c) == call[c].sha

\* The repository accepts a write iff the sha it carries is the current one
\* (null for a resource that does not exist); otherwise it answers 409.
ShaMatches(sha) == sha = remote.sha

Init ==
    /\ remote = [present |-> TRUE, assignments |-> EmptyMap, sha |-> 1]
    /\ localStorage = [c \in Clients |-> NoFile]
    /\ participants = [c \in Clients |-> DefaultParticipants]
    /\ assignments = [c \in Clients |-> EmptyMap]
    /\ assignedRecipients = [c \in Clients |-> {}]
    /\ store = [c \in Clients |-> "github"]
    /\ isLoading = [c \in Clients |-> FALSE]
    /\ isSpinning = [c \in Clients |-> FALSE]
    /\ pc = [c \in Clients |-> "idle"]
    /\ call = [c \in Clients |-> NoCall]
    /\ toast = [c \in Clients |-> ""]
    /\ shown = [c \in Clients |-> ""]
    /\ spinDisabled = [c \in Clients |-> updateUI(DefaultParticipants, {})]
    /\ outcome = [c \in Clients |-> "None"]
    /\ h = [c \in Clients |-> NoCalls]
    /\ spins = 0
    /\ mlog = <<>>
    /\ TokenSetup

\* Variant: handleSpin takes the UI lock before it looks at the eligible list.
HandleSpinRejectLocks(c) ==
    /\ UNCHANGED adminVars
    /\ ~spinDisabled[c]
    /\ ~isLoading[c] /\ ~isSpinning[c]
    /\ \E spinnerIdentity \in Identities :
       LET assigned == updateAssignedRecipients(assignments[c])
           eligible == getEligibleRecipients(participants[c], assigned, spinnerIdentity)
       IN /\ eligible = <<>>
          /\ assignedRecipients' = [assignedRecipients EXCEPT ![c] = assigned]
    /\ toast' = [toast EXCEPT ![c] = "NoEligible"]
    /\ outcome' = [outcome EXCEPT ![c] = "Rejected"]
    /\ shown' = [shown EXCEPT ![c] = ""]
    /\ h' = [h EXCEPT ![c] = NoCalls]
    /\ isLoading' = [isLoading EXCEPT ![c] = TRUE]
    /\ spinDisabled' = [spinDisabled EXCEPT ![c] = TRUE]
    /\ UNCHANGED <<remote, localStorage, participants, assignments, store,
                   isSpinning, pc, call, spins, mlog>>

\* Controller.handleSpin with an empty eligible list: toast and return.
HandleSpinReject(c) ==
    /\ UNCHANGED adminVars
    /\ ~spinDisabled[c]
    /\ ~isLoading[c] /\ ~isSpinning[c]
    /\ \E spinnerIdentity \in Identities :
       LET assigned == updateAssignedRecipients(assignments[c])
           eligible == getEligibleRecipients(participants[c], assigned, spinnerIdentity)
       IN /\ eligible = <<>>
          /\ assignedRecipients' = [assignedRecipients EXCEPT ![c] = assigned]
    /\ toast' = [toast EXCEPT ![c] = "NoEligible"]
    /\ outcome' = [outcome EXCEPT ![c] = "Rejected"]
    /\ shown' = [shown EXCEPT ![c] = ""]
    /\ h' = [h EXCEPT ![c] = NoCalls]
    /\ UNCHANGED <<remote, localStorage, participants, assignments, store,
                   isLoading, isSpinning, pc, call, spinDisabled, spins, mlog>>

\* Controller.handleSpin: pick a target among the eligible, lock the UI and
\* start the wheel animation (Wheel.spinToTarget sets isSpinning).
HandleSpinWithin(c, budget) ==
    /\ UNCHANGED adminVars
    /\ spins < budget
    /\ ~spinDisabled[c]
    /\ ~isLoading[c] /\ ~isSpinning[c]
    /\ \E spinnerIdentity \in Identities :
       LET assigned == updateAssignedRecipients(assignments[c])
           eligible == getEligibleRecipients(participants[c], assigned, spinnerIdentity)
       IN /\ eligible # <<>>
          /\ \E i \in 1..Len(eligible) :
               LET target == eligible[i] IN
               /\ Includes(eligible, target) /\ target \notin assigned
               /\ Includes(participants[c], target)
               /\ call' = [call EXCEPT ![c] =
                     [spinnerName |-> IF spinnerIdentity = NoIdentity
                                      THEN Anonymous ELSE spinnerIdentity,
                      recipient |-> target, isAdjustment |-> FALSE,
                      retryCount |-> 0, sha |-> NullSha, stateJson |-> EmptyMap,
                      prev |-> assignments[c]]]
          /\ assignedRecipients' = [assignedRecipients EXCEPT ![c] = assigned]
    /\ isLoading' = [isLoading EXCEPT ![c] = TRUE]
    /\ spinDisabled' = [spinDisabled EXCEPT ![c] = TRUE]
    /\ isSpinning' = [isSpinning EXCEPT ![c] = TRUE]
    /\ pc' = [pc EXCEPT ![c] = "spinning"]
    /\ toast' = [toast EXCEPT ![c] = ""]
    /\ outcome' = [outcome EXCEPT ![c] = "None"]
    /\ shown' = [shown EXCEPT ![c] = ""]
    /\ h' = [h EXCEPT ![c] = NoCalls]
    /\ spins' = spins + 1
    /\ UNCHANGED <<remote, localStorage, participants, assignments, store, mlog>>

HandleSpin(c) == HandleSpinWithin(c, MaxSpins)

\* The animation of Wheel.spinToTarget ends: isSpinning is cleared and the
\* onComplete callback enters commitAssignment (retryCount = 0).
SpinComplete(c) ==
    /\ UNCHANGED adminVars
    /\ pc[c] = "spinning"
    /\ isSpinning' = [isSpinning EXCEPT ![c] = FALSE]
    /\ call' = [call EXCEPT ![c].retryCount = 0]
    /\ pc' = [pc EXCEPT ![c] = "getFile"]
    /\ UNCHANGED <<remote, localStorage, participants, assignments,
                   assignedRecipients, store, isLoading, toast,
                   shown, spinDisabled, outcome, h, spins, mlog>>

\* localStorage.setItem either stores the item or throws (quota exceeded,
\* storage disabled); LocalStore.putFile rethrows.
SetItemResults == {"stored", "throws"}

\* The catch block of commitAssignment (lines 827-848) with ledger m, store st
\* and recipient r: fall back to LocalStore unless the store is already local.
\* When the fallback write itself throws, the exception leaves
\* commitAssignment at line 835: the call made by handleSpin (line 722) has
\* no handler, the call made after an adjustment spin has the one of lines
\* 768-773.
Catch(c, st, m, r) ==
    /\ assignments' = [assignments EXCEPT ![c] = m]
    /\ assignedRecipients' = [assignedRecipients EXCEPT ![c] = updateAssignedRecipients(m)]
    /\ call' = [call EXCEPT ![c].recipient = r]
    /\ store' = [store EXCEPT ![c] = "local"]
    /\ pc' = [pc EXCEPT ![c] = "idle"]
    /\ UNCHANGED isSpinning
    /\ IF st # "local"
       THEN \E setItem \in SetItemResults :
            IF setItem = "stored"
            THEN /\ localStorage' = [localStorage EXCEPT ![c] = File(m)]
                 /\ shown' = [shown EXCEPT ![c] = r]
                 /\ toast' = [toast EXCEPT ![c] = "WriteFailedLocal"]
                 /\ outcome' = [outcome EXCEPT ![c] = "FallenBack"]
                 /\ isLoading' = [isLoading EXCEPT ![c] = FALSE]
                 /\ spinDisabled' = [spinDisabled EXCEPT ![c] = FALSE]
            ELSE /\ outcome' = [outcome EXCEPT ![c] = "Escaped"]
                 /\ UNCHANGED <<localStorage, shown>>
                 /\ IF call[c].isAdjustment
                    THEN /\ toast' = [toast EXCEPT ![c] = "SaveFailedRetry"]
                         /\ isLoading' = [isLoading EXCEPT ![c] = FALSE]
                         /\ spinDisabled' = [spinDisabled EXCEPT ![c] = FALSE]
                    ELSE /\ toast' = [toast EXCEPT ![c] = "WriteFailedLocal"]
                         /\ UNCHANGED <<isLoading, spinDisabled>>
       ELSE /\ toast' = [toast EXCEPT ![c] = "SaveFailed"]
            /\ outcome' = [outcome EXCEPT ![c] = "SaveFailed"]
            /\ isLoading' = [isLoading EXCEPT ![c] = FALSE]
            /\ spinDisabled' = [spinDisabled EXCEPT ![c] =
                   updateUI(participants[c], updateAssignedRecipients(m))]
            /\ UNCHANGED <<localStorage, shown>>

\* Lines 785-806: final validation, addAssignment, and the write is issued
\* with the sha of stateData sd.
Validate(c, st, m, r, sd, tst) ==
    IF r \in updateAssignedRecipients(m)
    THEN Catch(c, st, m, r)
    ELSE LET m2 == addAssignment(m, call[c].spinnerName, r) IN
         /\ assignments' = [assignments EXCEPT ![c] = m2]
         /\ assignedRecipients' = [assignedRecipients EXCEPT ![c] = updateAssignedRecipients(m2)]
         /\ call' = [call EXCEPT ![c].recipient = r, ![c].sha = sd.sha,
                                 ![c].stateJson = m2]
         /\ store' = [store EXCEPT ![c] = st]
         /\ pc' = [pc EXCEPT ![c] = "putFile"]
         /\ toast' = [toast EXCEPT ![c] = tst]
         /\ UNCHANGED <<localStorage, shown, outcome, isLoading, isSpinning,
                        spinDisabled>>

\* Lines 743-806 of commitAssignment, run on the answer sd of the read, with
\* st the store after the read and dropdown the value that the
\* #spinner-identity select has at that moment (line 750).
AfterRead(c, sd, st, dropdown) ==
    LET merged == IF sd.present
                  THEN mergeAssignments(assignments[c], sd.assignments)
                  ELSE assignments[c]
        assigned == updateAssignedRecipients(merged)
        eligible == getEligibleRecipients(participants[c], assigned, dropdown)
        r == call[c].recipient
        pickAnother == sd.present /\ (~Includes(eligible, r) \/ r \in assigned)
    IN IF pickAnother
       THEN IF eligible = <<>>
            THEN /\ assignments' = [assignments EXCEPT ![c] = merged]
                 /\ assignedRecipients' = [assignedRecipients EXCEPT ![c] = assigned]
                 /\ store' = [store EXCEPT ![c] = st]
                 /\ toast' = [toast EXCEPT ![c] = "NoEligibleRefresh"]
                 /\ outcome' = [outcome EXCEPT ![c] = "NoRecipients"]
                 /\ isLoading' = [isLoading EXCEPT ![c] = FALSE]
                 /\ spinDisabled' = [spinDisabled EXCEPT ![c] =
                        updateUI(participants[c], assigned)]
                 /\ pc' = [pc EXCEPT ![c] = "idle"]
                 /\ UNCHANGED <<localStorage, shown, call, isSpinning>>
            ELSE \E i \in 1..Len(eligible) :
                   IF ~call[c].isAdjustment
                   THEN \* adjustment spin, then commitAssignment(.., true)
                        /\ Includes(participants[c], eligible[i])
                        /\ assignments' = [assignments EXCEPT ![c] = merged]
                        /\ assignedRecipients' = [assignedRecipients EXCEPT ![c] = assigned]
                        /\ store' = [store EXCEPT ![c] = st]
                        /\ call' = [call EXCEPT ![c].recipient = eligible[i],
                                                ![c].isAdjustment = TRUE]
                        /\ isSpinning' = [isSpinning EXCEPT ![c] = TRUE]
                        /\ pc' = [pc EXCEPT ![c] = "spinning"]
                        /\ toast' = [toast EXCEPT ![c] = "Adjusted"]
                        /\ UNCHANGED <<localStorage, shown, outcome, isLoading,
                                       spinDisabled>>
                   ELSE Validate(c, st, merged, eligible[i], sd, "Adjusting")
       ELSE Validate(c, st, merged, r, sd, toast[c])

\* Bookkeeping of the store calls of the spin in progress.
Answered(hc) == [hc EXCEPT !.after = IF hc.fail # 0 THEN @ + 1 ELSE @]
Sent(c) == [Answered(h[c]) EXCEPT !.puts = @ + 1, !.lastPut = PutSha(c),
                                  !.put1 = IF h[c].puts = 0 THEN PutSha(c) ELSE @,
                                  !.gets1 = IF h[c].puts = 0 THEN h[c].gets ELSE @]
Failed(hc, f) == IF hc.fail = 0 THEN [hc EXCEPT !.fail = f] ELSE hc

\* One iteration of the loop up to the write: the read of state.json by the
\* current store (lines 734-741), then lines 743-806.
GetFileOk(c) ==
    /\ UNCHANGED adminVars
    /\ pc[c] = "getFile"
    /\ store[c] = "github"
    /\ h' = [h EXCEPT ![c] = [Answered(h[c]) EXCEPT
                       !.gets = @ + 1, !.lastGet = remote.sha,
                       !.get2 = IF h[c].gets = 1 THEN remote.sha ELSE @]]
    /\ \E dropdown \in Identities : AfterRead(c, GitHubGet, "github", dropdown)
    /\ UNCHANGED <<remote, participants, spins, mlog>>

\* The remote read fails: stateData comes from LocalStore and the store is
\* switched to LocalStore.
GetFileFail(c) ==
    /\ UNCHANGED adminVars
    /\ pc[c] = "getFile"
    /\ store[c] = "github"
    /\ \E f \in FailStatuses : h' = [h EXCEPT ![c] = Failed(Answered(h[c]), f)]
    /\ \E dropdown \in Identities : AfterRead(c, LocalGet(c), "local", dropdown)
    /\ UNCHANGED <<remote, participants, spins, mlog>>

GetFileLocal(c) ==
    /\ UNCHANGED adminVars
    /\ pc[c] = "getFile"
    /\ store[c] = "local"
    /\ \E dropdown \in Identities : AfterRead(c, LocalGet(c), "local", dropdown)
    /\ UNCHANGED <<remote, participants, spins, mlog, h>>

\* Lines 808-814: the write succeeded.
Success(c, out) ==
    /\ shown' = [shown EXCEPT ![c] = call[c].recipient]
    /\ outcome' = [outcome EXCEPT ![c] = out]
    /\ isLoading' = [isLoading EXCEPT ![c] = FALSE]
    /\ spinDisabled' = [spinDisabled EXCEPT ![c] = FALSE]
    /\ pc' = [pc EXCEPT ![c] = "idle"]
    /\ UNCHANGED <<participants, assignments, assignedRecipients, store,
                   isSpinning, call, toast, mlog>>

\* The repository accepts the write of commitAssignment.
PutFileOk(c) ==
    /\ UNCHANGED adminVars
    /\ pc[c] = "putFile"
    /\ store[c] = "github"
    /\ ShaMatches(PutSha(c))
    /\ remote' = [present |-> TRUE, assignments |-> call[c].stateJson,
                  sha |-> remote.sha + 1]
    /\ h' = [h EXCEPT ![c] = Sent(c)]
    /\ Success(c, "Committed")
    /\ UNCHANGED <<localStorage, spins>>

\* The repository answers 409: retry while retryCount < maxRetries, else
\* rethrow into the catch block.
PutFileConflict(c) ==
    /\ UNCHANGED adminVars
    /\ pc[c] = "putFile"
    /\ store[c] = "github"
    /\ ~ShaMatches(PutSha(c))
    /\ h' = [h EXCEPT ![c] = [Sent(c) EXCEPT !.conflicts = @ + 1]]
    /\ IF call[c].retryCount + 1 < maxCommitRetries
       THEN /\ call' = [call EXCEPT ![c].retryCount = @ + 1]
            /\ toast' = [toast EXCEPT ![c] = "Conflict"]
            /\ pc' = [pc EXCEPT ![c] = "getFile"]
            /\ UNCHANGED <<localStorage, assignments, assignedRecipients, store,
                           isLoading, isSpinning, shown, spinDisabled, outcome>>
       ELSE Catch(c, store[c], assignments[c], call[c].recipient)
    /\ UNCHANGED <<remote, participants, spins, mlog>>

\* The write fails with another status (401, 403, network): catch block.
PutFileFail(c) ==
    /\ UNCHANGED adminVars
    /\ pc[c] = "putFile"
    /\ store[c] = "github"
    /\ \E f \in FailStatuses : h' = [h EXCEPT ![c] = Failed(Sent(c), f)]
    /\ Catch(c, store[c], assignments[c], call[c].recipient)
    /\ UNCHANGED <<remote, participants, spins, mlog>>

\* LocalStore.putFile as the current store, setItem stores: sha ignored.
PutFileLocal(c) ==
    /\ UNCHANGED adminVars
    /\ pc[c] = "putFile"
    /\ store[c] = "local"
    /\ localStorage' = [localStorage EXCEPT ![c] = File(call[c].stateJson)]
    /\ Success(c, "LocalSaved")
    /\ UNCHANGED <<remote, h, spins>>

\* LocalStore.putFile as the current store, setItem throws: the error has no
\* status, so it reaches the catch block with store === localStore.
PutFileLocalFail(c) ==
    /\ UNCHANGED adminVars
    /\ pc[c] = "putFile"
    /\ store[c] = "local"
    /\ h' = [h EXCEPT ![c].threw = TRUE]
    /\ Catch(c, store[c], assignments[c], call[c].recipient)
    /\ UNCHANGED <<remote, participants, spins, mlog>>

Next ==
    \E c \in Clients :
        \/ HandleSpinReject(c)
        \/ HandleSpin(c)
        \/ SpinComplete(c)
        \/ GetFileOk(c)
        \/ GetFileFail(c)
        \/ GetFileLocal(c)
        \/ PutFileOk(c)
        \/ PutFileConflict(c)
        \/ PutFileFail(c)
        \/ PutFileLocal(c)
        \/ PutFileLocalFail(c)

Spec == Init /\ [][Next]_vars

\* ------------------------------------------------------------------------
\* Progress: the browser runs every animation frame to the end of the spin
\* and every fetch / localStorage call settles (resolves or rejects), so each
\* continuation of a spin in progress is taken eventually; the user's clicks
\* carry no such obligation.
\* ------------------------------------------------------------------------
MaxLiveSpins == 2

HandleSpinLive(c) == HandleSpinWithin(c, MaxLiveSpins)

GetFileSettles(c) == GetFileOk(c) \/ GetFileFail(c) \/ GetFileLocal(c)

PutFileSettles(c) ==
    \/ PutFileOk(c) \/ PutFileConflict(c) \/ PutFileFail(c)
    \/ PutFileLocal(c) \/ PutFileLocalFail(c)

NextLive ==
    \E c \in Clients :
        \/ HandleSpinReject(c)
        \/ HandleSpinLive(c)
        \/ SpinComplete(c)
        \/ GetFileOk(c)
        \/ GetFileFail(c)
        \/ GetFileLocal(c)
        \/ PutFileOk(c)
        \/ PutFileConflict(c)
        \/ PutFileFail(c)
        \/ PutFileLocal(c)
        \/ PutFileLocalFail(c)

SpecLive ==
    /\ Init /\ [][NextLive]_vars
    /\ \A c \in Clients :
          /\ WF_vars(SpinComplete(c))
          /\ WF_vars(GetFileSettles(c))
          /\ WF_vars(PutFileSettles(c))

\* ------------------------------------------------------------------------
\* Contention: the same clients with a reachable repository (no failed
\* call), followed through more spin requests.
\* ------------------------------------------------------------------------
MaxRaceSpins == 5

HandleSpinRace(c) == HandleSpinWithin(c, MaxRaceSpins)

NextRace ==
    \E c \in Clients :
        \/ HandleSpinReject(c)
        \/ HandleSpinRace(c)
        \/ SpinComplete(c)
        \/ GetFileOk(c)
        \/ GetFileLocal(c)
        \/ PutFileOk(c)
        \/ PutFileConflict(c)
        \/ PutFileLocal(c)

SpecRace == Init /\ [][NextRace]_vars

\* ------------------------------------------------------------------------
\* Merge harness: State.mergeAssignments applied to every local mapping and
\* every remote mapping over Keys and Names, up to MaxMergeApplications times.
\* ------------------------------------------------------------------------
MaxMergeApplications == 2

InitMerge ==
    /\ \E L \in AllMaps, R \in AllMaps :
         /\ remote = [present |-> TRUE, assignments |-> R, sha |-> 1]
         /\ assignments = [c \in Clients |-> IF c = "c1" THEN L ELSE EmptyMap]
         /\ assignedRecipients = [c \in Clients |->
                IF c = "c1" THEN updateAssignedRecipients(L) ELSE {}]
         /\ mlog = <<[a |-> L, s |-> updateAssignedRecipients(L)]>>
    /\ localStorage = [c \in Clients |-> NoFile]
    /\ participants = [c \in Clients |-> DefaultParticipants]
    /\ store = [c \in Clients |-> "github"]
    /\ isLoading = [c \in Clients |-> FALSE]
    /\ isSpinning = [c \in Clients |-> FALSE]
    /\ pc = [c \in Clients |-> "idle"]
    /\ call = [c \in Clients |-> NoCall]
    /\ toast = [c \in Clients |-> ""]
    /\ shown = [c \in Clients |-> ""]
    /\ spinDisabled = [c \in Clients |->
           updateUI(participants[c], assignedRecipients[c])]
    /\ outcome = [c \in Clients |-> "None"]
    /\ h = [c \in Clients |-> NoCalls]
    /\ spins = 0
    /\ TokenSetup

MergeApply ==
    /\ UNCHANGED adminVars
    /\ Len(mlog) <= MaxMergeApplications
    /\ LET m == mergeAssignments(assignments["c1"], remote.assignments) IN
       /\ assignments' = [assignments EXCEPT !["c1"] = m]
       /\ assignedRecipients' = [assignedRecipients EXCEPT
                                    !["c1"] = updateAssignedRecipients(m)]
       /\ mlog' = Append(mlog, [a |-> m, s |-> updateAssignedRecipients(m)])
    /\ UNCHANGED <<remote, localStorage, participants, store, isLoading,
                   isSpinning, pc, call, toast, shown, spinDisabled, outcome,
                   h, spins>>

NextMerge == MergeApply

SpecMerge == InitMerge /\ [][NextMerge]_vars

\* ------------------------------------------------------------------------
\* Settings, reloads and the admin panel, next to the spins: clients with or
\* without a token and a proxy URL, MaxAdminSpins spin requests and
\* MaxAdminSteps settings and admin operations.
\* ------------------------------------------------------------------------
MaxAdminSpins == 2
MaxAdminSteps == 1

\* State.loadParticipants: taken over when data.participants is an array.
loadParticipants(cur, data) == IF data.present THEN data.participants ELSE cur

\* Variant: loadState skips a mapping without entries.
loadStateIgnoresEmpty(cur, data) ==
    IF data.present /\ data.assignments # EmptyMap THEN data.assignments ELSE cur

\* State.loadState: the mapping is replaced when data.assignments exists.
loadState(cur, data) == IF data.present THEN data.assignments ELSE cur

\* Variant: loadState leaves the assigned-recipient set as it was.
loadStateKeepsSet(curSet, data) == curSet

\* State.loadState: the set is recomputed with the mapping.
loadStateSet(curSet, data) ==
    IF data.present THEN updateAssignedRecipients(data.assignments) ELSE curSet

\* Controller.loadData, lines 585-586: the store is chosen by the token alone.
selectStore(hasToken) == IF hasToken THEN "github" ELSE "local"

\* Controller.loadData on a client whose State holds p0, a0, s0, with token
\* tok; up tells whether the remote calls of this load are answered. A read
\* that fails is replaced by the LocalStore read; a missing file is seeded
\* and written to the chosen store with sha null, failures ignored.
LoadData(c, p0, a0, s0, tok, up) ==
    LET st == selectStore(tok)
        viaRemote == st = "github" /\ up
        participantsData == IF viaRemote THEN remoteParticipants
                            ELSE localParticipants[c]
        stateData == IF viaRemote
                     THEN [present |-> remote.present,
                           assignments |-> remote.assignments]
                     ELSE localStorage[c]
        pFile == IF participantsData.present THEN participantsData
                 ELSE ParticipantsFile(DefaultParticipants)
        sFile == IF stateData.present THEN stateData ELSE File(EmptyMap)
    IN /\ store' = [store EXCEPT ![c] = st]
       /\ participants' = [participants EXCEPT ![c] = loadParticipants(p0, pFile)]
       /\ assignments' = [assignments EXCEPT ![c] = loadState(a0, sFile)]
       /\ assignedRecipients' = [assignedRecipients EXCEPT ![c] = loadStateSet(s0, sFile)]
       /\ remoteParticipants' = IF viaRemote /\ ~participantsData.present
                                THEN pFile ELSE remoteParticipants
       /\ participantsSha' = IF viaRemote /\ ~participantsData.present
                             THEN participantsSha + 1 ELSE participantsSha
       /\ localParticipants' = IF st = "local" /\ ~participantsData.present
                               THEN [localParticipants EXCEPT ![c] = pFile]
                               ELSE localParticipants
       /\ remote' = IF viaRemote /\ ~stateData.present
                    THEN [present |-> TRUE, assignments |-> EmptyMap,
                          sha |-> remote.sha + 1]
                    ELSE remote
       /\ localStorage' = IF st = "local" /\ ~stateData.present
                           THEN [localStorage EXCEPT ![c] = sFile]
                           ELSE localStorage
       /\ isLoading' = [isLoading EXCEPT ![c] = FALSE]

\* The page is loaded again between two spins: a new Controller and State,
\* init() runs loadData and then updateUI.
Reload(c) ==
    /\ adminSteps < MaxAdminSteps
    /\ pc[c] = "idle" /\ ~isLoading[c]
    /\ \E up \in BOOLEAN : LoadData(c, <<>>, EmptyMap, {}, gh_token[c], up)
    /\ spinDisabled' = [spinDisabled EXCEPT ![c] =
           updateUI(participants'[c], assignedRecipients'[c])]
    /\ isSpinning' = [isSpinning EXCEPT ![c] = FALSE]
    /\ call' = [call EXCEPT ![c] = NoCall]
    /\ toast' = [toast EXCEPT ![c] = ""]
    /\ shown' = [shown EXCEPT ![c] = ""]
    /\ outcome' = [outcome EXCEPT ![c] = "None"]
    /\ h' = [h EXCEPT ![c] = NoCalls]
    /\ adminSteps' = adminSteps + 1
    /\ UNCHANGED <<pc, spins, mlog, gh_token, config>>
    /\ UNCHANGED panelVars

\* Controller.saveSettings: the token is stored or removed, the proxy URL
\* is set or cleared, and loadData runs on the current State (no updateUI).
saveSettings(c, token, proxyUrl, up) ==
    /\ gh_token' = [gh_token EXCEPT ![c] = token]
    /\ config' = [config EXCEPT ![c].proxyUrl = proxyUrl]
    /\ LoadData(c, participants[c], assignments[c], assignedRecipients[c],
                token, up)
    /\ toast' = [toast EXCEPT ![c] = "SettingsSaved"]
    /\ adminSteps' = adminSteps + 1
    /\ UNCHANGED <<pc, isSpinning, call, shown, spinDisabled, h, spins, mlog>>
    /\ UNCHANGED panelVars

\* Controller.saveSettings between two spins.
SaveSettings(c) ==
    /\ adminSteps < MaxAdminSteps
    /\ pc[c] = "idle" /\ ~isLoading[c]
    /\ outcome' = [outcome EXCEPT ![c] = "None"]
    /\ \E token \in BOOLEAN, proxyUrl \in BOOLEAN, up \in BOOLEAN :
         saveSettings(c, token, proxyUrl, up)

\* AdminPanel.saveParticipants between two spins, with the new list newP: the sha is read, the
\* file is written to the current store, and only then the State, the
\* dropdown and the spin button are updated; a failure only alerts.
saveParticipants(c, newP, up) ==
    /\ adminSteps < MaxAdminSteps
    /\ pc[c] = "idle"
    /\ adminSteps' = adminSteps + 1
    /\ IF store[c] = "local" \/ up
       THEN /\ remoteParticipants' = IF store[c] = "github"
                                     THEN ParticipantsFile(newP)
                                     ELSE remoteParticipants
            /\ localParticipants' = IF store[c] = "local"
                                    THEN [localParticipants EXCEPT ![c] =
                                             ParticipantsFile(newP)]
                                    ELSE localParticipants
            /\ participants' = [participants EXCEPT ![c] =
                   loadParticipants(@, ParticipantsFile(newP))]
            /\ spinDisabled' = [spinDisabled EXCEPT ![c] =
                   updateUI(newP, assignedRecipients[c])]
            /\ toast' = [toast EXCEPT ![c] = "ParticipantsUpdated"]
            /\ participantsSha' = IF store[c] = "github"
                                  THEN participantsSha + 1 ELSE participantsSha
       ELSE UNCHANGED <<remoteParticipants, localParticipants, participants,
                        spinDisabled, toast, participantsSha>>
    /\ UNCHANGED <<remote, localStorage, assignments, assignedRecipients, store,
                   isLoading, isSpinning, pc, call, shown, outcome, h, spins,
                   mlog, gh_token, config>>
    /\ UNCHANGED panelVars

\* The names the admin types or removes.
AdminNames == Names \cup {"C"}

\* AdminPanel.addParticipant: a name that is not in the list is appended.
AddParticipant(c) ==
    \E name \in AdminNames, up \in BOOLEAN :
        /\ ~Includes(participants[c], name)
        /\ saveParticipants(c, Append(participants[c], name), up)

\* AdminPanel.removeParticipant: the Remove button of a listed name.
RemoveParticipant(c) ==
    \E name \in AdminNames, up \in BOOLEAN :
        LET Other(x) == x # name IN
        /\ Includes(participants[c], name)
        /\ saveParticipants(c, SelectSeq(participants[c], Other), up)

\* AdminPanel.resetAssignments between two spins: the empty state is written to the current
\* store with the sha just read, then loadState(emptyState) and updateUI.
ResetAssignments(c) ==
    /\ adminSteps < MaxAdminSteps
    /\ pc[c] = "idle"
    /\ adminSteps' = adminSteps + 1
    /\ \E up \in BOOLEAN :
         IF store[c] = "local" \/ up
         THEN /\ remote' = IF store[c] = "github"
                           THEN [present |-> TRUE, assignments |-> EmptyMap,
                                 sha |-> remote.sha + 1]
                           ELSE remote
              /\ localStorage' = IF store[c] = "local"
                                 THEN [localStorage EXCEPT ![c] = File(EmptyMap)]
                                 ELSE localStorage
              /\ assignments' = [assignments EXCEPT ![c] = loadState(@, File(EmptyMap))]
              /\ assignedRecipients' = [assignedRecipients EXCEPT ![c] =
                     loadStateSet(@, File(EmptyMap))]
              /\ spinDisabled' = [spinDisabled EXCEPT ![c] =
                     updateUI(participants[c], assignedRecipients'[c])]
              /\ toast' = [toast EXCEPT ![c] = "AssignmentsReset"]
              /\ wiped' = IF store[c] = "github" THEN remote.assignments ELSE wiped
         ELSE UNCHANGED <<remote, localStorage, assignments, assignedRecipients,
                          spinDisabled, toast, wiped>>
    /\ UNCHANGED <<participants, store, isLoading, isSpinning, pc, call, shown,
                   outcome, h, spins, mlog, gh_token, config,
                   remoteParticipants, localParticipants, participantsSha, edit>>

\* After construction: each client has a token or not, and no proxy URL
\* yet (config.js); loadData chose its store, and a client on LocalStore
\* seeded and stored the sample participants and the empty state.
InitAdmin ==
    /\ gh_token \in [Clients -> BOOLEAN]
    /\ config = [c \in Clients |-> [proxyUrl |-> FALSE]]
    /\ remote = [present |-> TRUE, assignments |-> EmptyMap, sha |-> 1]
    /\ remoteParticipants = ParticipantsFile(DefaultParticipants)
    /\ store = [c \in Clients |-> selectStore(gh_token[c])]
    /\ localParticipants = [c \in Clients |->
           IF store[c] = "local" THEN ParticipantsFile(DefaultParticipants)
           ELSE NoParticipantsFile]
    /\ localStorage = [c \in Clients |->
           IF store[c] = "local" THEN File(EmptyMap) ELSE NoFile]
    /\ participants = [c \in Clients |-> DefaultParticipants]
    /\ assignments = [c \in Clients |-> EmptyMap]
    /\ assignedRecipients = [c \in Clients |-> {}]
    /\ spinDisabled = [c \in Clients |-> updateUI(DefaultParticipants, {})]
    /\ isLoading = [c \in Clients |-> FALSE]
    /\ isSpinning = [c \in Clients |-> FALSE]
    /\ pc = [c \in Clients |-> "idle"]
    /\ call = [c \in Clients |-> NoCall]
    /\ toast = [c \in Clients |-> ""]
    /\ shown = [c \in Clients |-> ""]
    /\ outcome = [c \in Clients |-> "None"]
    /\ h = [c \in Clients |-> NoCalls]
    /\ spins = 0
    /\ mlog = <<>>
    /\ adminSteps = 0
    /\ participantsSha = 1
    /\ edit = [c \in Clients |-> NoEdit]
    /\ wiped = EmptyMap

HandleSpinAdmin(c) == HandleSpinWithin(c, MaxAdminSpins)

\* The browser in which the settings and the admin panel are used.
AdminClient == "c1"

NextAdmin ==
    \/ \E c \in Clients :
           \/ HandleSpinReject(c)
           \/ HandleSpinAdmin(c)
           \/ SpinComplete(c)
           \/ GetFileOk(c)
           \/ GetFileLocal(c)
           \/ PutFileOk(c)
           \/ PutFileConflict(c)
           \/ PutFileLocal(c)
    \/ Reload(AdminClient)
    \/ SaveSettings(AdminClient)
    \/ AddParticipant(AdminClient)
    \/ RemoveParticipant(AdminClient)
    \/ ResetAssignments(AdminClient)

SpecAdmin == InitAdmin /\ [][NextAdmin]_vars

\* ------------------------------------------------------------------------
\* The settings modal and the admin panel used while spins are in progress:
\* clients with a token and a reachable repository, MaxPanelSpins spin
\* requests and MaxPanelSteps clicks on Save Settings, Add or Remove.
\* saveParticipants is followed await by await.
\* ------------------------------------------------------------------------
MaxPanelSpins == 1
MaxPanelSteps == 2

\* handleSpin up to line 711 would go on to spin: the button is enabled,
\* neither isLoading nor wheel.isSpinning is set, and some identity of the
\* dropdown has an eligible recipient.
SpinAccepted(c) ==
    /\ ~spinDisabled[c]
    /\ ~isLoading[c] /\ ~isSpinning[c]
    /\ \E spinnerIdentity \in Identities :
         getEligibleRecipients(participants[c],
             updateAssignedRecipients(assignments[c]), spinnerIdentity) # <<>>

\* A spin request of a client that has no spin in progress (the model
\* follows one commit loop per client).
HandleSpinPanel(c) == pc[c] = "idle" /\ HandleSpinWithin(c, MaxPanelSpins)

HandleSpinRejectPanel(c) == pc[c] = "idle" /\ HandleSpinReject(c)

\* Save Settings at any moment, the token and the proxy URL left as they are.
SaveSettingsPanel(c) ==
    /\ adminSteps < MaxPanelSteps
    /\ saveSettings(c, gh_token[c], config[c].proxyUrl, TRUE)
    /\ UNCHANGED outcome

\* AdminPanel.saveParticipants, lines 208-223: the store is fixed and the
\* getFile of participants.json is answered; its sha is kept for the write.
saveParticipantsRead(c, newP) ==
    /\ adminSteps < MaxPanelSteps
    /\ edit[c].pc = "idle"
    /\ edit' = [edit EXCEPT ![c] =
           [NoEdit EXCEPT !.pc = "putFile", !.newP = newP, !.store = store[c],
                          !.sha = IF store[c] = "github" THEN participantsSha
                                  ELSE IF localParticipants[c].present
                                       THEN LocalSha ELSE NullSha]]
    /\ adminSteps' = adminSteps + 1
    /\ UNCHANGED <<remote, localStorage, participants, assignments,
                   assignedRecipients, store, isLoading, isSpinning, pc, call,
                   toast, shown, spinDisabled, outcome, h, spins, mlog,
                   gh_token, config, remoteParticipants, localParticipants,
                   participantsSha, wiped>>

AddParticipantClick(c) ==
    \E name \in AdminNames :
        /\ ~Includes(participants[c], name)
        /\ saveParticipantsRead(c, Append(participants[c], name))

RemoveParticipantClick(c) ==
    \E name \in AdminNames :
        LET Other(x) == x # name IN
        /\ Includes(participants[c], name)
        /\ saveParticipantsRead(c, SelectSeq(participants[c], Other))

\* AdminPanel.saveParticipants, lines 225-238: the write is accepted; the
\* State, the dropdown and the spin button are updated.
SaveParticipantsPutOk(c) ==
    /\ edit[c].pc = "putFile"
    /\ edit[c].store = "local" \/ edit[c].sha = participantsSha
    /\ remoteParticipants' = IF edit[c].store = "github"
                             THEN ParticipantsFile(edit[c].newP)
                             ELSE remoteParticipants
    /\ participantsSha' = IF edit[c].store = "github"
                          THEN participantsSha + 1 ELSE participantsSha
    /\ localParticipants' = IF edit[c].store = "local"
                            THEN [localParticipants EXCEPT ![c] =
                                     ParticipantsFile(edit[c].newP)]
                            ELSE localParticipants
    /\ participants' = [participants EXCEPT ![c] =
           loadParticipants(@, ParticipantsFile(edit[c].newP))]
    /\ spinDisabled' = [spinDisabled EXCEPT ![c] =
           updateUI(edit[c].newP, assignedRecipients[c])]
    /\ toast' = [toast EXCEPT ![c] = "ParticipantsUpdated"]
    /\ edit' = [edit EXCEPT ![c].pc = "idle", ![c].writes = @ + 1,
                            ![c].stored = TRUE]
    /\ UNCHANGED <<remote, localStorage, assignments, assignedRecipients, store,
                   isLoading, isSpinning, pc, call, shown, outcome, h, spins,
                   mlog, gh_token, config, adminSteps, wiped>>

\* AdminPanel.saveParticipants, lines 239-242: the repository answers 409
\* because participants.json changed after the read; the catch block alerts
\* and the handler ends.
SaveParticipantsPutConflict(c) ==
    /\ edit[c].pc = "putFile"
    /\ edit[c].store = "github" /\ edit[c].sha # participantsSha
    /\ edit' = [edit EXCEPT ![c].pc = "idle", ![c].writes = @ + 1,
                            ![c].conflicts = @ + 1]
    /\ UNCHANGED <<remote, localStorage, participants, assignments,
                   assignedRecipients, store, isLoading, isSpinning, pc, call,
                   toast, shown, spinDisabled, outcome, h, spins, mlog,
                   gh_token, config, remoteParticipants, localParticipants,
                   adminSteps, participantsSha, wiped>>

NextPanel ==
    \/ SaveSettingsPanel(AdminClient)
    \/ \E c \in Clients :
        \/ HandleSpinRejectPanel(c)
        \/ HandleSpinPanel(c)
        \/ SpinComplete(c)
        \/ GetFileOk(c)
        \/ PutFileOk(c)
        \/ AddParticipantClick(c)
        \/ RemoveParticipantClick(c)
        \/ SaveParticipantsPutOk(c)
        \/ SaveParticipantsPutConflict(c)

SpecPanel == Init /\ [][NextPanel]_vars

\* ------------------------------------------------------------------------
\* Eligibility harness: State.getEligibleRecipients applied to every
\* participant sequence of at most MaxParticipants names, every ledger over
\* Keys and Names, and every optional identity.
\* ------------------------------------------------------------------------
MaxParticipants == 4

HarnessNames == Names \cup {"C", "D"}

ParticipantLists == UNION {[1..n -> HarnessNames] : n \in 0..MaxParticipants}

InitEligible ==
    /\ \E P \in ParticipantLists, M \in AllMaps :
         /\ participants = [c \in Clients |-> P]
         /\ assignments = [c \in Clients |-> M]
         /\ assignedRecipients = [c \in Clients |-> updateAssignedRecipients(M)]
         /\ spinDisabled = [c \in Clients |-> updateUI(P, updateAssignedRecipients(M))]
    /\ remote = [present |-> TRUE, assignments |-> EmptyMap, sha |-> 1]
    /\ localStorage = [c \in Clients |-> NoFile]
    /\ store = [c \in Clients |-> "github"]
    /\ isLoading = [c \in Clients |-> FALSE]
    /\ isSpinning = [c \in Clients |-> FALSE]
    /\ pc = [c \in Clients |-> "idle"]
    /\ call = [c \in Clients |-> NoCall]
    /\ toast = [c \in Clients |-> ""]
    /\ shown = [c \in Clients |-> ""]
    /\ outcome = [c \in Clients |-> "None"]
    /\ h = [c \in Clients |-> NoCalls]
    /\ spins = 0
    /\ mlog = <<>>
    /\ TokenSetup

EligibleApply ==
    /\ UNCHANGED adminVars
    /\ mlog = <<>>
    /\ \E spinnerIdentity \in HarnessNames \cup {NoIdentity} :
         mlog' = <<[x |-> spinnerIdentity,
                    out |-> getEligibleRecipients(participants["c1"],
                               assignedRecipients["c1"], spinnerIdentity)]>>
    /\ UNCHANGED <<remote, localStorage, participants, assignments,
                   assignedRecipients, store, isLoading, isSpinning, pc, call,
                   toast, shown, spinDisabled, outcome, h, spins>>

NextEligible == EligibleApply

SpecEligible == InitEligible /\ [][NextEligible]_vars

\* ------------------------------------------------------------------------
\* Store harness: GitHubStore.getFile and GitHubStore.putFile, direct and
\* through the proxy function, applied to every answer of the repository.
\* ------------------------------------------------------------------------
MaxStoreSha == 2

HttpOk(status) == status \in 200..299

GetStatuses == {200, 401, 403, 404, 500}
PutStatuses == {200, 201, 401, 403, 409, 422}
Branches == {"", "main", "dev"}
Paths == {"state.json", "participants.json"}
Messages == {"Assign recipient", "Admin: Reset all assignments"}

\* A content field: null, a base64 string of the JSON text, a decoded
\* object, or a string that does not decode to JSON text.
NullContent == [type |-> "null", val |-> EmptyMap]
Malformed == [type |-> "malformed", val |-> EmptyMap]
base64Encode(json) == [type |-> "string", val |-> json]
base64Decode(content) == [type |-> "object", val |-> content.val]

\* The answer of the Contents API to a GET with the given status.
GitHubAnswer(status) ==
    IF status = 200
    THEN [status |-> 200, content |-> base64Encode(remote.assignments),
          sha |-> remote.sha]
    ELSE [status |-> status, content |-> NullContent, sha |-> NullSha]

\* Proxy handleGet, lines 113-161: 404 becomes 200 with content null and
\* sha null, any other non-OK status is passed on, content is decoded; a
\* content that fails to decode or parse is answered as null with the sha
\* of the file (lines 138-160).
handleGet(response) ==
    IF ~HttpOk(response.status)
    THEN IF response.status = 404
         THEN [status |-> 200, content |-> NullContent, sha |-> NullSha]
         ELSE [status |-> response.status, content |-> NullContent, sha |-> NullSha]
    ELSE [status |-> 200,
          content |-> IF response.content.type = "string"
                      THEN base64Decode(response.content) ELSE NullContent,
          sha |-> response.sha]

\* Variant: getFile raises 404 like every other non-OK status.
getFileRaises404(response) ==
    IF ~HttpOk(response.status)
    THEN [threw |-> TRUE, status |-> response.status, present |-> FALSE,
          assignments |-> EmptyMap, sha |-> NullSha]
    ELSE IF response.content.type = "malformed"
    THEN [threw |-> TRUE, status |-> 0, present |-> FALSE,
          assignments |-> EmptyMap, sha |-> NullSha]
    ELSE [threw |-> FALSE, status |-> 0,
          present |-> response.content.type # "null",
          assignments |-> response.content.val, sha |-> response.sha]

\* GitHubStore.getFile on the response it received (from the API or from
\* the proxy): 404 gives content null and sha null, another non-OK status
\* is thrown with error.status, content is decoded unless already an object;
\* JSON.parse / atob of a malformed string throws an error without status
\* (lines 113-130).
getFile(response) ==
    IF ~HttpOk(response.status)
    THEN IF response.status = 404
         THEN [threw |-> FALSE, status |-> 0, present |-> FALSE,
               assignments |-> EmptyMap, sha |-> NullSha]
         ELSE [threw |-> TRUE, status |-> response.status, present |-> FALSE,
               assignments |-> EmptyMap, sha |-> NullSha]
    ELSE IF response.content.type = "malformed"
    THEN [threw |-> TRUE, status |-> 0, present |-> FALSE,
          assignments |-> EmptyMap, sha |-> NullSha]
    ELSE LET content == IF response.content.type = "string"
                        THEN base64Decode(response.content)
                        ELSE response.content
         IN [threw |-> FALSE, status |-> 0,
             present |-> content.type # "null",
             assignments |-> content.val, sha |-> response.sha]

\* commitAssignment, lines 734-741: a read that throws makes LocalStore the
\* store of the client, any other read leaves the store as it is.
StoreAfterRead(st, out) == IF out.threw THEN "local" ELSE st

\* The request body GitHubStore.putFile posts to the proxy (lines 138-144).
ProxyBody(path, json, sha, message, branch) ==
    [path |-> path, content |-> base64Encode(json), sha |-> sha,
     message |-> message, branch |-> IF branch = "" THEN "main" ELSE branch]

\* The PUT that GitHubStore.putFile sends to the API itself (lines 163-171).
DirectPut(path, json, sha, message, branch) ==
    [path |-> path, content |-> base64Encode(json), message |-> message,
     branch |-> IF branch = "" THEN "main" ELSE branch,
     hasSha |-> sha # NullSha, sha |-> sha]

\* Proxy handlePut, lines 191-230: the PUT sent to the API for a request
\* body; envBranch is GITHUB_BRANCH of the function's environment.
handlePutRequest(body, envBranch) ==
    [path |-> body.path, content |-> body.content, message |-> body.message,
     branch |-> IF body.branch # "" THEN body.branch
                ELSE IF envBranch # "" THEN envBranch ELSE "main",
     hasSha |-> body.sha # NullSha, sha |-> body.sha]

\* Variant: the proxy answers every upstream failure with 500.
handlePutAnswers500(status) == IF HttpOk(status) THEN 200 ELSE 500

\* Proxy handlePut, lines 242-273: the status answered for the API's status.
handlePut(status) == IF HttpOk(status) THEN 200 ELSE status

\* GitHubStore.putFile on the status it received: non-OK is thrown with
\* error.status (lines 150-159 and 185-194).
putFile(status) ==
    IF HttpOk(status) THEN [threw |-> FALSE, status |-> 0]
    ELSE [threw |-> TRUE, status |-> status]

InitStore ==
    /\ config \in [Clients -> [proxyUrl : BOOLEAN]]
    /\ \/ remote = [present |-> FALSE, assignments |-> EmptyMap, sha |-> NullSha]
       \/ \E m \in AllMaps, v \in 1..MaxStoreSha :
              remote = [present |-> TRUE, assignments |-> m, sha |-> v]
    /\ localStorage = [c \in Clients |-> NoFile]
    /\ participants = [c \in Clients |-> DefaultParticipants]
    /\ assignments = [c \in Clients |-> EmptyMap]
    /\ assignedRecipients = [c \in Clients |-> {}]
    /\ store = [c \in Clients |-> "github"]
    /\ isLoading = [c \in Clients |-> FALSE]
    /\ isSpinning = [c \in Clients |-> FALSE]
    /\ pc = [c \in Clients |-> "idle"]
    /\ call = [c \in Clients |-> NoCall]
    /\ toast = [c \in Clients |-> ""]
    /\ shown = [c \in Clients |-> ""]
    /\ spinDisabled = [c \in Clients |-> updateUI(DefaultParticipants, {})]
    /\ outcome = [c \in Clients |-> "None"]
    /\ h = [c \in Clients |-> NoCalls]
    /\ spins = 0
    /\ mlog = <<>>
    /\ gh_token = [c \in Clients |-> TRUE]
    /\ remoteParticipants = ParticipantsFile(DefaultParticipants)
    /\ localParticipants = [c \in Clients |-> NoParticipantsFile]
    /\ adminSteps = 0
    /\ participantsSha = 1
    /\ edit = [c \in Clients |-> NoEdit]
    /\ wiped = EmptyMap

\* One getFile of client c: the API answers 200 for an existing file, 404
\* for a missing one, or an error status; the content of an existing file
\* is the JSON text of a ledger or is malformed.
GetFileApply(c) ==
    /\ mlog = <<>>
    /\ \E status \in GetStatuses, wellFormed \in BOOLEAN :
         /\ status = 200 => remote.present
         /\ status = 404 => ~remote.present
         /\ ~wellFormed => status = 200
         /\ LET upstream == IF wellFormed THEN GitHubAnswer(status)
                            ELSE [GitHubAnswer(status) EXCEPT !.content = Malformed]
                response == IF config[c].proxyUrl THEN handleGet(upstream)
                            ELSE upstream
            IN mlog' = <<[op |-> "get", proxy |-> config[c].proxyUrl,
                          upstream |-> status, wellFormed |-> wellFormed,
                          response |-> response.status,
                          out |-> getFile(response),
                          store |-> StoreAfterRead(store[c], getFile(response))]>>
    /\ UNCHANGED <<remote, localStorage, participants, assignments,
                   assignedRecipients, store, isLoading, isSpinning, pc, call,
                   toast, shown, spinDisabled, outcome, h, spins>>
    /\ UNCHANGED adminVars

\* One putFile of client c: the API accepts the write iff the sha is the
\* current one (200 for an update, 201 for a creation), answers 409 or 422
\* when it is not, or refuses with 401 or 403.
PutFileApply(c) ==
    /\ mlog = <<>>
    /\ \E status \in PutStatuses, path \in Paths, message \in Messages,
          branch \in Branches, envBranch \in Branches,
          sha \in {NullSha, 1, remote.sha} :
         LET json == addAssignment(remote.assignments, Anonymous, "A")
             body == ProxyBody(path, json, sha, message, branch)
             sent == IF config[c].proxyUrl THEN handlePutRequest(body, envBranch)
                     ELSE DirectPut(path, json, sha, message, branch)
             response == IF config[c].proxyUrl THEN handlePut(status) ELSE status
         IN /\ status = 200 => (remote.present /\ ShaMatches(sha))
            /\ status = 201 => (~remote.present /\ ShaMatches(sha))
            /\ status \in {409, 422} => ~ShaMatches(sha)
            /\ mlog' = <<[op |-> "put", proxy |-> config[c].proxyUrl,
                          upstream |-> status, response |-> response,
                          body |-> body, sent |-> sent,
                          direct |-> DirectPut(path, json, sha, message, branch),
                          out |-> putFile(response)]>>
    /\ UNCHANGED <<remote, localStorage, participants, assignments,
                   assignedRecipients, store, isLoading, isSpinning, pc, call,
                   toast, shown, spinDisabled, outcome, h, spins>>
    /\ UNCHANGED adminVars

NextStore == \E c \in Clients : GetFileApply(c) \/ PutFileApply(c)

SpecStore == InitStore /\ [][NextStore]_vars

\* ------------------------------------------------------------------------
\* Admin panel on one client: add, remove, reorder and reset, each with its
\* read and its write answered separately, from every participant list
\* without duplicates and with the files of the store present or missing.
\* ------------------------------------------------------------------------
MaxRosterSteps == 2

NoDuplicates(p) == \A i, j \in 1..Len(p) : p[i] = p[j] => i = j

RosterLists ==
    {p \in UNION {[1..n -> AdminNames] : n \in 0..Cardinality(AdminNames)} :
        NoDuplicates(p)}

RosterLedgers ==
    {EmptyMap, Put(EmptyMap, "A", "B"), Put(Put(EmptyMap, "A", "B"), "B", "A")}

\* The sha of participants.json in the repository (null when missing).
ParticipantsShaMatches(sha) == sha = participantsSha

\* The entries left untouched by every step of the panel.
rosterFrame ==
    <<store, isLoading, isSpinning, pc, call, shown, outcome, h, spins,
      gh_token, config, edit, wiped>>

InitRoster ==
    /\ gh_token \in {g \in [Clients -> BOOLEAN] : \A c \in Clients \ {AdminClient} : g[c]}
    /\ config = [c \in Clients |-> [proxyUrl |-> FALSE]]
    /\ store = [c \in Clients |-> selectStore(gh_token[c])]
    /\ \E p \in RosterLists, m \in RosterLedgers :
         /\ participants = [c \in Clients |-> p]
         /\ assignments = [c \in Clients |-> m]
         /\ assignedRecipients = [c \in Clients |-> updateAssignedRecipients(m)]
         /\ spinDisabled = [c \in Clients |-> updateUI(p, updateAssignedRecipients(m))]
         /\ \/ remoteParticipants = ParticipantsFile(p) /\ participantsSha = 1
            \/ remoteParticipants = NoParticipantsFile /\ participantsSha = NullSha
         /\ \/ remote = [present |-> TRUE, assignments |-> m, sha |-> 1]
            \/ remote = [present |-> FALSE, assignments |-> EmptyMap, sha |-> NullSha]
         /\ localParticipants = [c \in Clients |->
                IF store[c] = "local" THEN ParticipantsFile(p) ELSE NoParticipantsFile]
         /\ localStorage = [c \in Clients |->
                IF store[c] = "local" THEN File(m) ELSE NoFile]
    /\ isLoading = [c \in Clients |-> FALSE]
    /\ isSpinning = [c \in Clients |-> FALSE]
    /\ pc = [c \in Clients |-> "idle"]
    /\ call = [c \in Clients |-> NoCall]
    /\ toast = [c \in Clients |-> ""]
    /\ shown = [c \in Clients |-> ""]
    /\ outcome = [c \in Clients |-> "None"]
    /\ h = [c \in Clients |-> NoCalls]
    /\ spins = 0
    /\ mlog = <<>>
    /\ adminSteps = 0
    /\ edit = [c \in Clients |-> NoEdit]
    /\ wiped = EmptyMap

\* AdminPanel.saveParticipants (admin.js 208-243) with the new list newP:
\* getFile, whose failure is replaced by { sha: null }; putFile with that
\* sha; then loadParticipants and updateUI. A failed putFile only alerts.
\* LocalStore.getFile does not throw; its putFile throws when setItem does.
saveParticipantsRoster(c, op, newP) ==
    /\ adminSteps < MaxRosterSteps
    /\ adminSteps' = adminSteps + 1
    /\ \E readOk \in BOOLEAN, writeUp \in BOOLEAN :
         LET currentSha == IF store[c] = "local"
                           THEN IF localParticipants[c].present
                                THEN LocalSha ELSE NullSha
                           ELSE IF readOk THEN participantsSha ELSE NullSha
             accepted == writeUp /\ (store[c] = "local" \/
                                     ParticipantsShaMatches(currentSha))
         IN /\ store[c] = "local" => readOk
            /\ mlog' = <<[op |-> op, client |-> c, store |-> store[c],
                          readOk |-> readOk, sha |-> currentSha,
                          accepted |-> accepted, newP |-> newP]>>
            /\ IF accepted
               THEN /\ remoteParticipants' = IF store[c] = "github"
                                             THEN ParticipantsFile(newP)
                                             ELSE remoteParticipants
                    /\ participantsSha' = IF store[c] = "github"
                                          THEN participantsSha + 1
                                          ELSE participantsSha
                    /\ localParticipants' = IF store[c] = "local"
                                            THEN [localParticipants EXCEPT ![c] =
                                                     ParticipantsFile(newP)]
                                            ELSE localParticipants
                    /\ participants' = [participants EXCEPT ![c] =
                           loadParticipants(@, ParticipantsFile(newP))]
                    /\ spinDisabled' = [spinDisabled EXCEPT ![c] =
                           updateUI(participants'[c], assignedRecipients[c])]
                    /\ toast' = [toast EXCEPT ![c] = "ParticipantsUpdated"]
               ELSE UNCHANGED <<remoteParticipants, participantsSha,
                                localParticipants, participants, spinDisabled,
                                toast>>
    /\ UNCHANGED <<remote, localStorage, assignments, assignedRecipients>>
    /\ UNCHANGED rosterFrame

\* Variant: addParticipant appends the name without looking for it.
AddParticipantUnchecked(c) ==
    \E name \in AdminNames :
        saveParticipantsRoster(c, "addParticipant", Append(participants[c], name))

\* AdminPanel.addParticipant (admin.js 174-194), name not yet listed.
AddParticipantRoster(c) ==
    \E name \in AdminNames :
        /\ ~Includes(participants[c], name)
        /\ saveParticipantsRoster(c, "addParticipant", Append(participants[c], name))

\* AdminPanel.addParticipant with a listed name: alert and return (lines
\* 186-189).
AddParticipantExists(c) ==
    \E name \in AdminNames :
        /\ Includes(participants[c], name)
        /\ mlog' = <<[op |-> "alreadyExists", client |-> c, name |-> name]>>
        /\ UNCHANGED <<remote, localStorage, participants, assignments,
                       assignedRecipients, toast, spinDisabled,
                       remoteParticipants, localParticipants, adminSteps,
                       participantsSha>>
        /\ UNCHANGED rosterFrame

\* AdminPanel.removeParticipant (admin.js 196-206).
RemoveParticipantRoster(c) ==
    \E name \in AdminNames :
        LET Other(x) == x # name IN
        /\ Includes(participants[c], name)
        /\ saveParticipantsRoster(c, "removeParticipant",
                                  SelectSeq(participants[c], Other))

\* Array.prototype.splice as used by the drop handler: the element at
\* oldIndex is removed and inserted at newIndex of the shortened list.
Move(p, oldIndex, newIndex) ==
    LET rest == SubSeq(p, 1, oldIndex - 1) \o SubSeq(p, oldIndex + 1, Len(p))
    IN SubSeq(rest, 1, newIndex - 1) \o <<p[oldIndex]>> \o
       SubSeq(rest, newIndex, Len(rest))

\* The drop handler of setupDragDrop (admin.js 157-170): an item dropped on
\* another item of the list.
ReorderParticipants(c) ==
    \E oldIndex \in 1..Len(participants[c]), newIndex \in 1..Len(participants[c]) :
        /\ oldIndex # newIndex
        /\ saveParticipantsRoster(c, "reorder",
                                  Move(participants[c], oldIndex, newIndex))

\* AdminPanel.resetAssignments (admin.js 270-312): getFile, whose failure is
\* replaced by { sha: null }; putFile of the empty state with that sha;
\* then loadState(emptyState) and updateUI. A failed putFile only alerts.
ResetAssignmentsRoster(c) ==
    /\ adminSteps < MaxRosterSteps
    /\ adminSteps' = adminSteps + 1
    /\ \E readOk \in BOOLEAN, writeUp \in BOOLEAN :
         LET currentSha == IF store[c] = "local"
                           THEN IF localStorage[c].present
                                THEN LocalSha ELSE NullSha
                           ELSE IF readOk THEN remote.sha ELSE NullSha
             accepted == writeUp /\ (store[c] = "local" \/ ShaMatches(currentSha))
         IN /\ store[c] = "local" => readOk
            /\ mlog' = <<[op |-> "resetAssignments", client |-> c,
                          store |-> store[c], readOk |-> readOk,
                          sha |-> currentSha, accepted |-> accepted,
                          before |-> assignments[c]]>>
            /\ IF accepted
               THEN /\ remote' = IF store[c] = "github"
                                 THEN [present |-> TRUE, assignments |-> EmptyMap,
                                       sha |-> remote.sha + 1]
                                 ELSE remote
                    /\ localStorage' = IF store[c] = "local"
                                       THEN [localStorage EXCEPT ![c] = File(EmptyMap)]
                                       ELSE localStorage
                    /\ assignments' = [assignments EXCEPT ![c] =
                           loadState(@, File(EmptyMap))]
                    /\ assignedRecipients' = [assignedRecipients EXCEPT ![c] =
                           loadStateSet(@, File(EmptyMap))]
                    /\ spinDisabled' = [spinDisabled EXCEPT ![c] =
                           updateUI(participants[c], assignedRecipients'[c])]
                    /\ toast' = [toast EXCEPT ![c] = "AssignmentsReset"]
               ELSE UNCHANGED <<remote, localStorage, assignments,
                                assignedRecipients, spinDisabled, toast>>
    /\ UNCHANGED <<participants, remoteParticipants, localParticipants,
                   participantsSha>>
    /\ UNCHANGED rosterFrame

NextRoster ==
    \/ AddParticipantRoster(AdminClient)
    \/ AddParticipantExists(AdminClient)
    \/ RemoveParticipantRoster(AdminClient)
    \/ ReorderParticipants(AdminClient)
    \/ ResetAssignmentsRoster(AdminClient)

SpecRoster == InitRoster /\ [][NextRoster]_vars

\* ------------------------------------------------------------------------
\* Loading: Controller.loadData with each read and each seed write answered
\* separately, on stores whose files are present or missing.
\* ------------------------------------------------------------------------
MaxLoadSteps == 2

\* The answer of the Contents API to the GET of a file with JSON value json
\* and version sha; the stored text is that JSON or is malformed.
UpstreamGet(status, wellFormed, json, sha) ==
    IF status = 200
    THEN [status |-> 200,
          content |-> IF wellFormed THEN base64Encode(json) ELSE Malformed,
          sha |-> sha]
    ELSE [status |-> status, content |-> NullContent, sha |-> NullSha]

\* LocalStore.getFile (app.js 209-221): never throws; sha 'local' for a
\* stored item.
LocalRead(present, json) ==
    [failed |-> FALSE, present |-> present, val |-> json,
     sha |-> IF present THEN LocalSha ELSE NullSha]

\* loadData's read of one resource (lines 589-595 and 612-618): getFile of
\* the chosen store; when it throws, the LocalStore copy is taken instead.
LoadRead(c, st, upstream, localData) ==
    IF st = "local" THEN localData
    ELSE LET out == getFile(IF config[c].proxyUrl THEN handleGet(upstream)
                            ELSE upstream)
         IN IF out.threw THEN [localData EXCEPT !.failed = TRUE]
            ELSE [failed |-> FALSE, present |-> out.present,
                  val |-> out.assignments, sha |-> out.sha]

\* loadData's seed write (lines 603 and 625): putFile(path, seed, null, ...).
SeedSha(data) == NullSha

\* The participant lists found in the stores; the other clients keep their
\* token, have no proxy and no LocalStore copy.
LoadLists == {<<"B", "A">>, <<"C", "A", "B">>}

InitLoad ==
    /\ gh_token \in {g \in [Clients -> BOOLEAN] : \A c \in Clients \ {AdminClient} : g[c]}
    /\ config \in {g \in [Clients -> [proxyUrl : BOOLEAN]] :
                     \A c \in Clients \ {AdminClient} : ~g[c].proxyUrl}
    /\ store = [c \in Clients |-> selectStore(gh_token[c])]
    /\ \E p \in LoadLists, m \in RosterLedgers :
         /\ participants = [c \in Clients |-> p]
         /\ assignments = [c \in Clients |-> m]
         /\ assignedRecipients = [c \in Clients |-> updateAssignedRecipients(m)]
         /\ spinDisabled = [c \in Clients |-> updateUI(p, updateAssignedRecipients(m))]
         /\ \/ remoteParticipants = ParticipantsFile(p) /\ participantsSha = 1
            \/ remoteParticipants = NoParticipantsFile /\ participantsSha = NullSha
         /\ \/ remote = [present |-> TRUE, assignments |-> m, sha |-> 1]
            \/ remote = [present |-> FALSE, assignments |-> EmptyMap, sha |-> NullSha]
         /\ \E keeps \in {k \in [Clients -> BOOLEAN] :
                           \A c \in Clients \ {AdminClient} : ~k[c]} :
              /\ localParticipants = [c \in Clients |->
                     IF keeps[c] THEN ParticipantsFile(p) ELSE NoParticipantsFile]
              /\ localStorage = [c \in Clients |->
                     IF keeps[c] THEN File(m) ELSE NoFile]
    /\ isLoading = [c \in Clients |-> FALSE]
    /\ isSpinning = [c \in Clients |-> FALSE]
    /\ pc = [c \in Clients |-> "idle"]
    /\ call = [c \in Clients |-> NoCall]
    /\ toast = [c \in Clients |-> ""]
    /\ shown = [c \in Clients |-> ""]
    /\ outcome = [c \in Clients |-> "None"]
    /\ h = [c \in Clients |-> NoCalls]
    /\ spins = 0
    /\ mlog = <<>>
    /\ adminSteps = 0
    /\ edit = [c \in Clients |-> NoEdit]
    /\ wiped = EmptyMap

\* Controller.loadData (app.js 579-651) of client c. For each of the two
\* resources: the read; when the data has no content, the seed is loaded
\* into the State and written to this.store with SeedSha, a rejected or
\* failed write being ignored; otherwise the content is loaded.
loadData(c) ==
    /\ adminSteps < MaxLoadSteps
    /\ pc[c] = "idle"
    /\ \E pStatus \in GetStatuses, sStatus \in GetStatuses,
          pWell \in BOOLEAN, sWell \in BOOLEAN,
          pWrite \in BOOLEAN, sWrite \in BOOLEAN :
         LET st == selectStore(gh_token[c])
             pData == LoadRead(c, st,
                          UpstreamGet(pStatus, pWell,
                              remoteParticipants.participants, participantsSha),
                          LocalRead(localParticipants[c].present,
                                    localParticipants[c].participants))
             sData == LoadRead(c, st,
                          UpstreamGet(sStatus, sWell, remote.assignments, remote.sha),
                          LocalRead(localStorage[c].present,
                                    localStorage[c].assignments))
             pSeed == ~pData.present
             sSeed == ~sData.present
             pAccepted == pSeed /\ pWrite /\
                          (st = "local" \/ ParticipantsShaMatches(SeedSha(pData)))
             sAccepted == sSeed /\ sWrite /\
                          (st = "local" \/ ShaMatches(SeedSha(sData)))
         IN /\ pStatus = 200 => remoteParticipants.present
            /\ pStatus = 404 => ~remoteParticipants.present
            /\ sStatus = 200 => remote.present
            /\ sStatus = 404 => ~remote.present
            /\ ~pWell => pStatus = 200
            /\ ~sWell => sStatus = 200
            /\ store' = [store EXCEPT ![c] = st]
            /\ participants' = [participants EXCEPT ![c] =
                   IF pSeed THEN loadParticipants(@, ParticipantsFile(DefaultParticipants))
                   ELSE loadParticipants(@, ParticipantsFile(pData.val))]
            /\ assignments' = [assignments EXCEPT ![c] =
                   IF sSeed THEN loadState(@, File(EmptyMap))
                   ELSE loadState(@, File(sData.val))]
            /\ assignedRecipients' = [assignedRecipients EXCEPT ![c] =
                   IF sSeed THEN loadStateSet(@, File(EmptyMap))
                   ELSE loadStateSet(@, File(sData.val))]
            /\ remoteParticipants' = IF pAccepted /\ st = "github"
                                     THEN ParticipantsFile(DefaultParticipants)
                                     ELSE remoteParticipants
            /\ participantsSha' = IF pAccepted /\ st = "github"
                                  THEN participantsSha + 1 ELSE participantsSha
            /\ localParticipants' = IF pAccepted /\ st = "local"
                                    THEN [localParticipants EXCEPT ![c] =
                                            ParticipantsFile(DefaultParticipants)]
                                    ELSE localParticipants
            /\ remote' = IF sAccepted /\ st = "github"
                         THEN [present |-> TRUE, assignments |-> EmptyMap,
                               sha |-> remote.sha + 1]
                         ELSE remote
            /\ localStorage' = IF sAccepted /\ st = "local"
                               THEN [localStorage EXCEPT ![c] = File(EmptyMap)]
                               ELSE localStorage
            /\ mlog' = <<[op |-> "load", resource |-> "participants",
                          client |-> c, store |-> st, failed |-> pData.failed,
                          sha |-> pData.sha, seed |-> pSeed,
                          accepted |-> pAccepted,
                          existed |-> remoteParticipants.present],
                         [op |-> "load", resource |-> "state",
                          client |-> c, store |-> st, failed |-> sData.failed,
                          sha |-> sData.sha, seed |-> sSeed,
                          accepted |-> sAccepted,
                          existed |-> remote.present]>>
    /\ isLoading' = [isLoading EXCEPT ![c] = FALSE]
    /\ adminSteps' = adminSteps + 1
    /\ UNCHANGED <<isSpinning, pc, call, toast, shown, spinDisabled, outcome,
                   h, spins, gh_token, config, edit, wiped>>

NextLoad == loadData(AdminClient)

SpecLoad == InitLoad /\ [][NextLoad]_vars

\* ------------------------------------------------------------------------
\* Properties
\* ------------------------------------------------------------------------
Injective(m) == \A k1, k2 \in DOMAIN m : m[k1] = m[k2] => k1 = k2

Reported(c) == pc[c] = "idle" /\ outcome[c] \in {"Committed", "FallenBack", "LocalSaved"}

\* C1: every ledger written to the remote state.json maps no two distinct
\* spinner keys to the same recipient.
C1_RemoteLedgerUnique == Injective(remote.assignments)

\* C3: a spin requested with declared identity X never records and reports
\* X itself as the recipient.
C3_NoSelfAssignment ==
    \A c \in Clients :
        (Reported(c) /\ call[c].spinnerName # Anonymous)
            => shown[c] # call[c].spinnerName

\* A write of client c to the remote store is pending with a version that is
\* no longer the current one.
Stale(c) == pc[c] = "putFile" /\ store[c] = "github" /\ h[c].lastGet # remote.sha

PutPending(c) == pc[c] = "putFile" /\ store[c] = "github"

\* C2: of two pending writes whose reads returned the same version at most
\* one is accepted: once one is accepted the version of the other is stale,
\* stays stale, and the stale write is answered 409 (or fails) and leaves
\* the remote ledger as it is.
C2_AtMostOneWriter ==
    [][\A c1 \in Clients : \A c2 \in Clients \ {c1} :
          /\ (PutPending(c1) /\ PutPending(c2) /\ h[c1].lastGet = h[c2].lastGet
                 /\ remote' # remote /\ pc'[c1] = "idle")
               => (Stale(c2))'
          /\ (Stale(c2) /\ pc'[c2] = "putFile") => (Stale(c2))'
          /\ (Stale(c2) /\ pc'[c2] # "putFile")
               => /\ remote' = remote
                  /\ outcome'[c2] # "Committed"
                  /\ \/ h'[c2].conflicts = h[c2].conflicts + 1
                     \/ h'[c2].fail # 0]_vars

\* Witness C2: two clients read the same version, one was Committed with it
\* and the other was answered 409.
C2_Witness ==
    \E c1 \in Clients : \E c2 \in Clients \ {c1} :
        /\ pc[c1] = "idle" /\ outcome[c1] = "Committed"
        /\ h[c1].lastPut = h[c2].lastPut
        /\ pc[c2] = "getFile" /\ h[c2].conflicts = 1 /\ h[c2].puts = 1

\* The spin of client c ended after R writes that were all answered 409.
AllConflicts(c) ==
    /\ pc[c] = "idle" /\ h[c].puts >= maxCommitRetries
    /\ h[c].conflicts = h[c].puts /\ h[c].fail = 0

\* C4: a spin whose writes were all answered 409, up to the budget R, ends
\* Failed: 'retries exhausted' is reported, no recipient is shown, nothing
\* is written to LocalStore and the ledger is as it was before the spin
\* under the spinner's key.
C4_ExhaustedMeansFailed ==
    \A c \in Clients :
        AllConflicts(c) =>
            /\ toast[c] = "RetriesExhausted"
            /\ shown[c] = ""
            /\ ~localStorage[c].present
            /\ LET k == call[c].spinnerName IN
               IF k \in DOMAIN call[c].prev
               THEN k \in DOMAIN assignments[c] /\ assignments[c][k] = call[c].prev[k]
               ELSE k \notin DOMAIN assignments[c]

\* The spin of client c read once, had its first write answered 409 and
\* its second write accepted.
SecondWriteAccepted(c) ==
    /\ pc[c] = "idle" /\ h[c].puts = 2 /\ h[c].conflicts = 1 /\ h[c].fail = 0
    /\ h[c].gets1 = 1

C6_ForbiddenFallsBack ==
    \A c \in Clients :
        (/\ pc[c] = "idle" /\ h[c].fail \in {401, 403}
         /\ outcome[c] # "Escaped" /\ ~h[c].threw) =>
            /\ h[c].after = 0
            /\ shown[c] # ""
            /\ localStorage[c].present
            /\ call[c].spinnerName \in DOMAIN localStorage[c].assignments
            /\ localStorage[c].assignments[call[c].spinnerName] = shown[c]

\* Every participant of client c is the recipient of an entry of its ledger.
Exhausted(c) ==
    \A i \in 1..Len(participants[c]) : participants[c][i] \in Values(assignments[c])

C9_MergeIdempotent ==
    Len(mlog) >= 3 => (mlog[3].a = mlog[2].a /\ mlog[3].s = mlog[2].s)

\* Witness C9: merged twice, where the first application adopted two keys.
C9_Witness ==
    /\ Len(mlog) >= 3
    /\ Cardinality(DOMAIN mlog[2].a) >= Cardinality(DOMAIN mlog[1].a) + 2

\* C10: one spin request sends at most maxCommitRetries writes to the remote
\* state.json, adjustment spin included.
C10_WritesWithinBudget ==
    \A c \in Clients : h[c].puts <= maxCommitRetries

\* C11: every spin ends inside commitAssignment, whatever store call failed,
\* the LocalStore fallback write included: no exception leaves
\* commitAssignment and the UI lock isLoading is released when the spin is over.
C11_NoEscape ==
    \A c \in Clients :
        pc[c] = "idle" => (outcome[c] # "Escaped" /\ ~isLoading[c])

\* The spin of client c reported a recipient with its ledger persisted to
\* LocalStore only, after a remote call of the spin failed.
LocalOnly(c) ==
    /\ pc[c] = "idle" /\ shown[c] # "" /\ h[c].fail # 0
    /\ outcome[c] \in {"FallenBack", "LocalSaved"}
    /\ localStorage[c].present

\* C12: a spin that reports a recipient persisted to LocalStore only,
\* because a remote read or write failed, surfaces the 'saved locally'
\* notice.
C12_DegradedNotice ==
    \A c \in Clients : LocalOnly(c) => toast[c] = "WriteFailedLocal"

\* C15: the recipient of a Committed spin stays an assigned recipient of the
\* remote ledger through the later commits of every client.
C15_CommittedStays ==
    \A c \in Clients :
        (pc[c] = "idle" /\ outcome[c] = "Committed")
            => shown[c] \in Values(remote.assignments)

\* C16: with every participant assigned and no spin in progress the spin
\* button is disabled.
C16_SpinDisabledWhenExhausted ==
    \A c \in Clients : (pc[c] = "idle" /\ Exhausted(c)) => spinDisabled[c]

\* C20: a transient failure (503, network) of a remote call of a spin is
\* retried while the budget of maxCommitRetries attempts lasts: a spin that
\* ended with fewer writes than the budget made a remote call after the
\* failure.
C20_TransientRetried ==
    \A c \in Clients :
        (pc[c] = "idle" /\ h[c].fail = 503 /\ h[c].puts < maxCommitRetries)
            => h[c].after > 0

\* The spin of client c started from an empty ledger with declared identity
\* X, was Committed, and its ledger holds the entry of X only.
FirstCommit(c) ==
    /\ pc[c] = "idle" /\ outcome[c] = "Committed"
    /\ call[c].prev = EmptyMap /\ call[c].spinnerName # Anonymous
    /\ DOMAIN assignments[c] = {call[c].spinnerName}

\* C19: from an empty ledger, a Committed spin of declared identity X gives
\* the ledger {X: r} with r a participant other than X, and the eligible
\* recipients with no exclusion are then the participants without r, X
\* among them.
C19_FirstCommitExample ==
    \A c \in Clients :
        FirstCommit(c) =>
            LET X == call[c].spinnerName
                r == assignments[c][X]
                NotR(x) == x # r
                eligible == getEligibleRecipients(participants[c],
                                assignedRecipients[c], NoIdentity)
            IN /\ Includes(participants[c], r)
               /\ r # X
               /\ shown[c] = r
               /\ eligible = SelectSeq(participants[c], NotR)
               /\ Includes(eligible, X)

\* The positions of P whose name is not a value of M and differs from the
\* identity X when one is supplied.
Kept(P, M, X) ==
    {i \in 1..Len(P) : P[i] \notin Values(M) /\ (X = NoIdentity \/ P[i] # X)}

\* C18: getEligibleRecipients(X) is exactly the elements of P that are not
\* a value of M and, for a non-empty X, differ from X, in the order of P.
C18_EligibleExact ==
    Len(mlog) >= 1 =>
        LET P == participants["c1"]
            out == mlog[1].out
            K == Kept(P, assignments["c1"], mlog[1].x)
        IN /\ Len(out) = Cardinality(K)
           /\ \A i \in K : out[Cardinality({j \in K : j <= i})] = P[i]

\* Witness C18: from [D,C,B,A] with B assigned and identity C the result is
\* [D,A].
C18_Witness ==
    /\ Len(mlog) >= 1
    /\ participants["c1"] = <<"D", "C", "B", "A">>
    /\ Values(assignments["c1"]) = {"B"}
    /\ mlog[1].x = "C"
    /\ mlog[1].out = <<"D", "A">>

\* C13: every recipient of the local ledger of a client is a member of its
\* current participant sequence, also after the admin removed a participant
\* and after a reload.
C13_RecipientsAreParticipants ==
    \A c \in Clients :
        \A r \in Values(assignments[c]) : Includes(participants[c], r)

C17_ProxyUsesRemote ==
    \A c \in Clients :
        (config[c].proxyUrl /\ pc[c] = "idle" /\ outcome[c] = "None")
            => store[c] = "github"

\* C26: every step that issues a remote write of commitAssignment is the
\* step in which a remote read of the same loop iteration is answered, and
\* the write carries the version that read returned; a rejected write is
\* followed by a new read, never directly by another write, so the version
\* sent before a 409 is not the one the next write carries.
C26_WriteCarriesIterationRead ==
    [][\A c \in Clients :
          /\ (pc[c] # "putFile" /\ pc'[c] = "putFile" /\ store'[c] = "github")
               => /\ pc[c] = "getFile"
                  /\ h'[c].gets = h[c].gets + 1
                  /\ h'[c].lastGet = remote.sha
                  /\ (PutSha(c))' = remote.sha
          /\ (PutPending(c) /\ pc'[c] = "putFile") => (PutSha(c))' = PutSha(c)
          /\ (PutPending(c) /\ h'[c].conflicts = h[c].conflicts + 1
                 /\ pc'[c] # "idle")
               => pc'[c] = "getFile"
          /\ (PutPending(c) /\ h[c].conflicts > 0) => PutSha(c) # h[c].lastPut]_vars

\* Witness C26: a retry write is pending; it carries the version of the
\* read made after the 409, which is not the version the first write carried.
C26_Witness ==
    \E c \in Clients :
        /\ PutPending(c) /\ h[c].conflicts = 1 /\ h[c].gets >= 2
        /\ PutSha(c) = h[c].lastGet /\ PutSha(c) # h[c].put1

\* C27: when a write was answered 409 and the ledger returned by the read
\* of the retry assigns the target of the spin to no spinner (the target not
\* being the spinner's own name), the retry keeps the target and issues the
\* write for it.
C27_RetryKeepsTarget ==
    [][\A c \in Clients :
          (/\ pc[c] = "getFile" /\ store[c] = "github"
           /\ call[c].retryCount > 0 /\ h[c].conflicts > 0
           /\ h'[c].gets = h[c].gets + 1
           /\ call[c].recipient \notin Values(remote.assignments)
           /\ call[c].recipient # call[c].spinnerName)
          => (pc'[c] = "putFile" /\ call'[c].recipient = call[c].recipient)]_vars

\* C28: when commitAssignment aborts on an empty refreshed eligible list
\* after the spin had added its entry (abort on a retry), the local ledger
\* does not hold that entry (unless the remote ledger records the same
\* entry): the spinner key has the value it had before.
C28_AbortLeavesNoEntry ==
    \A c \in Clients :
        (pc[c] = "idle" /\ outcome[c] = "NoRecipients" /\ h[c].puts > 0) =>
            LET k == call[c].spinnerName
                added == call[c].stateJson[k]
            IN ~(/\ k \in DOMAIN assignments[c]
                 /\ assignments[c][k] = added
                 /\ (k \notin DOMAIN call[c].prev \/ call[c].prev[k] # added)
                 /\ (k \notin DOMAIN remote.assignments
                        \/ remote.assignments[k] # added))

\* The keys under which ledger m records recipient r.
KeysOf(m, r) == {k \in DOMAIN m : m[k] = r}

\* C29: in every ledger that commitAssignment writes to a store, the
\* recipient being assigned is the value of exactly one key, the spinner's
\* own: in the write of line 806 and in the fallback write of line 835.
C29_RecipientUnderOwnKeyOnly ==
    \A c \in Clients :
        /\ pc[c] = "putFile" =>
              KeysOf(call[c].stateJson, call[c].recipient) = {call[c].spinnerName}
        /\ (pc[c] = "idle" /\ outcome[c] = "FallenBack") =>
              KeysOf(localStorage[c].assignments, shown[c]) = {call[c].spinnerName}

\* Witness C29: a write is pending whose ledger holds the entry of another
\* spinner next to the spinner's own.
C29_Witness ==
    \E c \in Clients :
        /\ PutPending(c)
        /\ Cardinality(DOMAIN call[c].stateJson) >= 2
        /\ KeysOf(call[c].stateJson, call[c].recipient) = {call[c].spinnerName}

\* What LocalStore.getFile answers: the stored content with the version
\* 'local', or content null and version null for a resource never written.
LocalVersions ==
    \A c \in Clients :
        IF localStorage[c].present
        THEN /\ LocalGet(c).present /\ LocalGet(c).sha = LocalSha
             /\ LocalGet(c).assignments = localStorage[c].assignments
        ELSE ~LocalGet(c).present /\ LocalGet(c).sha = NullSha

\* A step in which LocalStore, as the current store of c, answers the write
\* of commitAssignment.
LocalPutAnswered(c) ==
    pc[c] = "putFile" /\ store[c] = "local" /\ pc'[c] # "putFile"

LocalPutStored(c) ==
    /\ outcome'[c] = "LocalSaved"
    /\ localStorage'[c] = File(call[c].stateJson)
    /\ (LocalGet(c))'.sha = LocalSha

\* C22 as stated: LocalStore.putFile succeeds whatever version it is given
\* and never reports a Conflict; getFile reports the version 'local' for a
\* stored resource and content null, version null for one never written.
C22_LocalPutSucceeds ==
    [][/\ LocalVersions /\ LocalVersions'
       /\ \A c \in Clients :
             LocalPutAnswered(c) =>
                 /\ h'[c].conflicts = h[c].conflicts
                 /\ LocalPutStored(c)]_vars

\* C22 amended: LocalStore.putFile never reports a Conflict and never looks
\* at the version it is given: it stores the content with the version
\* 'local', unless localStorage.setItem throws, and then it rethrows an
\* error without status and stores nothing.
C22_LocalNeverConflicts ==
    [][/\ LocalVersions /\ LocalVersions'
       /\ \A c \in Clients :
             LocalPutAnswered(c) =>
                 /\ h'[c].conflicts = h[c].conflicts
                 /\ \/ LocalPutStored(c)
                    \/ /\ h'[c].threw /\ h'[c].fail = h[c].fail
                       /\ outcome'[c] = "SaveFailed"
                       /\ localStorage'[c] = localStorage[c]]_vars

\* Witness C22: LocalStore accepted a write that carried the version null
\* and a write that carried the version 'local'.
C22_Witness ==
    \E c1 \in Clients : \E c2 \in Clients \ {c1} :
        /\ pc[c1] = "idle" /\ outcome[c1] = "LocalSaved" /\ call[c1].sha = NullSha
        /\ pc[c2] = "idle" /\ outcome[c2] = "LocalSaved" /\ call[c2].sha = LocalSha

\* C23: a getFile whose resource does not exist returns content null and
\* version null without throwing, directly (the API answers 404) and through
\* the proxy (which answers 200 for the API's 404); every other non-OK
\* status is thrown with that status, directly and through the proxy; an
\* existing resource is returned with its content and version.
C23_MissingIsNotAnError ==
    \A i \in 1..Len(mlog) :
        mlog[i].op = "get" =>
            LET x == mlog[i] IN
            /\ x.upstream = 404 =>
                  /\ ~x.out.threw /\ ~x.out.present /\ x.out.sha = NullSha
                  /\ x.proxy => x.response = 200
            /\ (~HttpOk(x.upstream) /\ x.upstream # 404) =>
                  /\ x.out.threw /\ x.out.status = x.upstream
                  /\ x.response = x.upstream
            /\ (HttpOk(x.upstream) /\ x.wellFormed) =>
                  /\ ~x.out.threw /\ x.out.present
                  /\ x.out.assignments = remote.assignments
                  /\ x.out.sha = remote.sha

\* Witness C23: a read through the proxy of a resource that does not exist.
C23_Witness ==
    \E i \in 1..Len(mlog) :
        /\ mlog[i].op = "get" /\ mlog[i].proxy /\ mlog[i].upstream = 404
        /\ mlog[i].response = 200 /\ ~mlog[i].out.threw /\ ~mlog[i].out.present

\* C24: for a write through the proxy, a non-OK answer of the API is
\* answered by the proxy with the same status and thrown by the client with
\* that status (409 stays 409); the PUT the proxy sends has the path,
\* content, message and branch of the request it received, and its sha when
\* there is one: the same PUT the client sends without a proxy.
C24_ProxyPreservesWrite ==
    \A i \in 1..Len(mlog) :
        (mlog[i].op = "put" /\ mlog[i].proxy) =>
            LET x == mlog[i] IN
            /\ ~HttpOk(x.upstream) =>
                  /\ x.response = x.upstream
                  /\ x.out.threw /\ x.out.status = x.upstream
            /\ HttpOk(x.upstream) => ~x.out.threw
            /\ x.sent.path = x.body.path
            /\ x.sent.content = x.body.content
            /\ x.sent.message = x.body.message
            /\ x.sent.branch = x.body.branch
            /\ x.sent.hasSha = (x.body.sha # NullSha)
            /\ x.sent.hasSha => x.sent.sha = x.body.sha
            /\ x.sent = x.direct

\* Witness C24: a write through the proxy that the API answered 409.
C24_Witness ==
    \E i \in 1..Len(mlog) :
        /\ mlog[i].op = "put" /\ mlog[i].proxy /\ mlog[i].upstream = 409
        /\ mlog[i].out.threw /\ mlog[i].out.status = 409
        /\ mlog[i].sent.hasSha

\* C30: once resetAssignments has stored the empty ledger in the
\* repository, no accepted write of a spin puts back, under a key other than
\* the spinner's own, an entry of the ledger that the reset replaced and
\* that the remote ledger did not hold when the write was accepted.
C30_ResetIsFinal ==
    [][\A c \in Clients :
          (PutPending(c) /\ outcome'[c] = "Committed" /\ remote' # remote) =>
              \A k \in DOMAIN remote'.assignments \ {call[c].spinnerName} :
                  ~(/\ k \in DOMAIN wiped
                    /\ wiped[k] = remote'.assignments[k]
                    /\ (k \notin DOMAIN remote.assignments
                           \/ remote.assignments[k] # wiped[k]))]_vars

\* C21: a saveParticipants call whose first write was answered 409 reads
\* again and sends a second write before it ends (the limit of
\* maxCommitRetries writes is not reached by one 409).
C21_EditRetriesOnConflict ==
    \A c \in Clients :
        (edit[c].pc = "idle" /\ edit[c].conflicts = 1) => edit[c].writes >= 2

\* C25: while a spin of a client is in progress (from the accepted request
\* to the end of commitAssignment), a further spin request of that client
\* is not accepted.
C25_OneCommitLoop ==
    \A c \in Clients : pc[c] # "idle" => ~SpinAccepted(c)

\* C32: every write of commitAssignment that the repository accepts writes
\* a ledger whose keys include every key of the remote ledger it replaces.
C32_WriteKeepsRemoteKeys ==
    [][\A c \in Clients :
          (PutPending(c) /\ outcome'[c] = "Committed" /\ remote' # remote) =>
              /\ remote'.assignments = call[c].stateJson
              /\ DOMAIN remote.assignments \subseteq DOMAIN remote'.assignments]_vars

\* Witness C32: a Committed write replaced a ledger that held the entry of
\* another spinner key, and the written ledger holds it too.
C32_Witness ==
    \E c \in Clients :
        /\ pc[c] = "idle" /\ outcome[c] = "Committed"
        /\ remote.assignments = call[c].stateJson
        /\ \E k \in DOMAIN remote.assignments : k # call[c].spinnerName
        /\ assignments[c] = remote.assignments

\* C33: in the step that shows recipient r for spinner key s, the ledger
\* persisted by the spin holds s -> r: state.json in the repository on
\* Committed, state.json in LocalStore on FallenBack and LocalSaved.
C33_ShownIsPersisted ==
    [][\A c \in Clients :
          (pc[c] # "idle" /\ pc'[c] = "idle" /\ shown'[c] # "") =>
              LET s == call'[c].spinnerName
                  r == shown'[c]
                  ledger == IF outcome'[c] = "Committed" THEN remote'.assignments
                            ELSE localStorage'[c].assignments
              IN /\ outcome'[c] \in {"Committed", "FallenBack", "LocalSaved"}
                 /\ outcome'[c] # "Committed" => localStorage'[c].present
                 /\ s \in DOMAIN ledger /\ ledger[s] = r]_vars

\* Witness C33: a spin of a named spinner fell back to LocalStore and
\* showed its recipient.
C33_Witness ==
    \E c \in Clients :
        /\ pc[c] = "idle" /\ outcome[c] = "FallenBack" /\ shown[c] # ""
        /\ call[c].spinnerName # Anonymous
        /\ call[c].spinnerName \in DOMAIN localStorage[c].assignments
        /\ localStorage[c].assignments[call[c].spinnerName] = shown[c]

\* C38: a spin request that finds no eligible recipient for the declared
\* identity changes neither the lock, the spin in progress, the stores, the
\* ledger nor the participants and makes no store call; and a request that
\* takes the lock has a target that is a participant, not assigned in the
\* local ledger and not the declared identity.
C38_EmptyEligibleRejected ==
    [][\A c \in Clients :
          /\ (outcome'[c] = "Rejected" /\ outcome[c] # "Rejected") =>
                /\ toast'[c] = "NoEligible" /\ h'[c] = NoCalls
                /\ isLoading' = isLoading /\ isSpinning' = isSpinning
                /\ spinDisabled' = spinDisabled /\ pc' = pc
                /\ remote' = remote /\ localStorage' = localStorage
                /\ assignments' = assignments /\ participants' = participants
                /\ store' = store
                /\ \E spinnerIdentity \in Identities :
                      getEligibleRecipients(participants[c],
                          updateAssignedRecipients(assignments[c]),
                          spinnerIdentity) = <<>>
          /\ (pc[c] = "idle" /\ pc'[c] = "spinning") =>
                /\ Includes(participants[c], call'[c].recipient)
                /\ call'[c].recipient \notin Values(assignments[c])
                /\ call'[c].recipient # call'[c].spinnerName]_vars

\* Witness C38: a request was rejected while the button was enabled and no
\* spin was in progress.
C38_Witness ==
    \E c \in Clients :
        /\ outcome[c] = "Rejected" /\ toast[c] = "NoEligible"
        /\ pc[c] = "idle" /\ ~isLoading[c] /\ ~spinDisabled[c]
        /\ h[c] = NoCalls

\* The outcomes with which a spin ends: written to the repository, written
\* to LocalStore (as fallback or as the store in use), failed with the lock
\* released, or aborted with no recipient left.
Terminal == {"Committed", "FallenBack", "LocalSaved", "SaveFailed", "NoRecipients"}

\* C34: every accepted spin request eventually ends with a terminal outcome
\* and with the UI lock released, when every animation ends and every store
\* call settles.
C34_SpinTerminates ==
    \A c \in Clients :
        (pc[c] = "spinning") ~>
            (pc[c] = "idle" /\ outcome[c] \in Terminal /\ ~isLoading[c])

\* C39: a read of a ledger whose content is malformed is answered like a
\* read of an absent resource: nothing is thrown, the content is null, and
\* the client's store stays the GitHubStore.
C39_MalformedReadsAsAbsent ==
    \A i \in 1..Len(mlog) :
        (mlog[i].op = "get" /\ HttpOk(mlog[i].upstream) /\ ~mlog[i].wellFormed) =>
            /\ ~mlog[i].out.threw /\ ~mlog[i].out.present
            /\ mlog[i].store = "github"

\* The last call of the admin panel, when it was a save or a reset.
PanelCall(log) ==
    /\ log # <<>>
    /\ log[1].op \in {"addParticipant", "removeParticipant", "reorder",
                      "resetAssignments"}

\* C35: a save or a reset of the admin panel changes the participants and
\* the ledger in memory only when its write was accepted, and when its read
\* or its write failed it leaves them and both LocalStore files unchanged.
C35_AdminFailureChangesNothing ==
    [][(PanelCall(mlog') /\ adminSteps' = adminSteps + 1) =>
          LET x == mlog'[1] IN
          /\ (participants' # participants \/ assignments' # assignments) =>
                x.accepted
          /\ (~x.readOk \/ ~x.accepted) =>
                /\ participants' = participants /\ assignments' = assignments
                /\ assignedRecipients' = assignedRecipients
                /\ localStorage' = localStorage
                /\ localParticipants' = localParticipants]_vars

\* C36: an accepted participant edit makes the new list the participant
\* sequence and the stored participants.json and leaves the ledger and
\* state.json as they were; an accepted reset empties the ledger and the
\* stored state.json and leaves the participants and participants.json as
\* they were.
C36_EditAndResetFrames ==
    [][(PanelCall(mlog') /\ adminSteps' = adminSteps + 1 /\ mlog'[1].accepted) =>
          LET x == mlog'[1]
              c == x.client
          IN IF x.op = "resetAssignments"
             THEN /\ assignments'[c] = EmptyMap /\ assignedRecipients'[c] = {}
                  /\ IF x.store = "github"
                     THEN remote'.assignments = EmptyMap /\ remote'.present
                     ELSE localStorage'[c] = File(EmptyMap)
                  /\ participants' = participants
                  /\ remoteParticipants' = remoteParticipants
                  /\ participantsSha' = participantsSha
                  /\ localParticipants' = localParticipants
             ELSE /\ participants'[c] = x.newP
                  /\ IF x.store = "github"
                     THEN remoteParticipants' = ParticipantsFile(x.newP)
                     ELSE localParticipants'[c] = ParticipantsFile(x.newP)
                  /\ assignments' = assignments
                  /\ assignedRecipients' = assignedRecipients
                  /\ remote' = remote /\ localStorage' = localStorage]_vars

\* Witness C36: an accepted reset emptied a ledger that had entries while
\* participants were listed.
C36_Witness ==
    /\ PanelCall(mlog) /\ mlog[1].op = "resetAssignments" /\ mlog[1].accepted
    /\ mlog[1].before # EmptyMap
    /\ assignments[AdminClient] = EmptyMap
    /\ Len(participants[AdminClient]) >= 2

\* C37: the admin's add, remove and reorder keep the participant sequence
\* and the stored lists free of duplicates, and the add of a listed name
\* changes nothing and makes no store call.
C37_NoDuplicateParticipants ==
    [][/\ \A c \in Clients :
             /\ NoDuplicates(participants'[c])
             /\ NoDuplicates(localParticipants'[c].participants)
       /\ NoDuplicates(remoteParticipants'.participants)
       /\ (mlog' # mlog /\ mlog'[1].op = "alreadyExists") =>
             /\ Includes(participants[mlog'[1].client], mlog'[1].name)
             /\ participants' = participants
             /\ remoteParticipants' = remoteParticipants
             /\ participantsSha' = participantsSha
             /\ localParticipants' = localParticipants
             /\ adminSteps' = adminSteps]_vars

\* Witness C37: after an edit that the repository accepted, the add of a
\* name listed among three was turned down.
C37_Witness ==
    /\ mlog # <<>> /\ mlog[1].op = "alreadyExists"
    /\ adminSteps = 1
    /\ Len(participants[AdminClient]) = 3
    /\ participants[AdminClient][1] = "C"
    /\ remoteParticipants = ParticipantsFile(participants[AdminClient])
    /\ participantsSha = 2

\* C31: loadData issues a seed write for a resource only when the read of
\* the store reported it absent (not after a failed read, not with a
\* version returned), and no seed write replaces a file of the repository.
C31_SeedOnlyWhenAbsent ==
    \A i \in 1..Len(mlog) :
        (mlog[i].op = "load" /\ mlog[i].seed) =>
            /\ ~mlog[i].failed
            /\ mlog[i].sha = NullSha
            /\ ~(mlog[i].accepted /\ mlog[i].store = "github" /\ mlog[i].existed)
====
